---- MODULE Spec2Model ----
(***************************************************************************)
(* Model of the AXP PMU driver (firmware/drivers/axp-pmu.c), of the        *)
(* simulator hardware stubs (uisimulator/common/stubs.c) and of the POSIX  *)
(* raw disk backend (tools/ipodpatcher/ipodio-posix.c).                    *)
(*                                                                         *)
(* Every driver entry point is one action.  The action records the call in *)
(* `call` (name, arguments, returned values, bus transactions issued) and  *)
(* the driver state before the call in `pre`.                              *)
(***************************************************************************)
EXTENDS Integers, Sequences, FiniteSets, TLC

VARIABLES
    adc_enable,             \* axp.adc_enable
    chargecurrent_setting,  \* axp.chargecurrent_setting
    chip_id,                \* axp.chip_id
    regs,                   \* the PMU's configuration registers (hardware)
    faults,                 \* bus write failures the environment may still inject
    call,                   \* the last call: [op, arg, ret, bus]
    pre,                    \* driver state and registers before the last call
    driven,                 \* the supplies the caller drives in this behaviour
    files,                  \* simulator: host files "sector<HEX>.bin"
    buf,                    \* simulator: the caller's sector buffer
    lastwrite,              \* history: what the last write of each sector asked
    build,                  \* the build's configuration: [HAVE_BATTERY_SWITCH]
    dh,                     \* ipodpatcher: the caller's HANDLE
    sector_size,            \* ipodpatcher: the caller's sector size
    fds,                    \* ipodpatcher: the process's open descriptors
    button_queue,           \* simulator: button events not yet fetched
    usb_pc,                 \* simulator: where simulate_usb stands
    usb_seen                \* history: the events simulate_usb has fetched

vars == <<adc_enable, chargecurrent_setting, chip_id, regs, faults, call, pre,
          driven, files, buf, lastwrite, build, dh, sector_size, fds,
          button_queue, usb_pc, usb_seen>>

axpVars == <<adc_enable, chargecurrent_setting, chip_id, regs, faults>>
simVars == <<driven, files, buf, lastwrite>>
ipodVars == <<dh, sector_size, fds>>
usbVars == <<button_queue, usb_pc, usb_seen>>
otherVars == <<build, ipodVars, usbVars>>

-----------------------------------------------------------------------------
(* Bounds of the model *)

\* At most this many bus write transactions fail in one behaviour of a
\* specification that lets writes fail.
MaxWriteFaults == 1

\* The number of descriptors the process may hold open at once; open fails
\* when they are all in use.
MaxDescriptors == 3

\* The number of button events the user produces during one call of
\* simulate_usb.
MaxEvents == 3

-----------------------------------------------------------------------------
(* C integer arithmetic on non-negative values *)

RECURSIVE BitAnd(_, _)
BitAnd(a, b) ==
    IF a = 0 \/ b = 0 THEN 0
    ELSE (a % 2) * (b % 2) + 2 * BitAnd(a \div 2, b \div 2)

RECURSIVE BitOr(_, _)
BitOr(a, b) ==
    IF a = 0 THEN b
    ELSE IF b = 0 THEN a
    ELSE (IF a % 2 = 1 \/ b % 2 = 1 THEN 1 ELSE 0)
         + 2 * BitOr(a \div 2, b \div 2)

Shl(a, n) == a * (2 ^ n)
Shr(a, n) == a \div (2 ^ n)

\* ~x on a uint8_t operand, as i2c_reg_modify1 uses it
Not8(x) == 255 - (x % 256)

INT_MIN == -2147483647 - 1
INT_MAX == 2147483647

-----------------------------------------------------------------------------
(* Register map and enumerations of axp-pmu.h *)

AXP_REG_POWERSTATUS == 0          \* 0x00
AXP_REG_CHARGECONTROL1 == 51      \* 0x33
AXP_REG_ADCENABLE1 == 130         \* 0x82
AXP_REG_ADCENABLE2 == 131         \* 0x83
AXP_REG_COULOMBCOUNTERBASE == 176 \* 0xb0

ADC_ACIN_VOLTAGE == 0
ADC_ACIN_CURRENT == 1
ADC_VBUS_VOLTAGE == 2
ADC_VBUS_CURRENT == 3
ADC_INTERNAL_TEMP == 4
ADC_TS_INPUT == 5
ADC_BATTERY_VOLTAGE == 6
ADC_CHARGE_CURRENT == 7
ADC_DISCHARGE_CURRENT == 8
ADC_APS_VOLTAGE == 9
ADC_BATTERY_POWER == 10
NUM_ADC_CHANNELS == 11

AXP_BATT_DISCHARGING == 0
AXP_BATT_CHARGING == 1
AXP_BATT_FULL == 2

\* axp_adc_info[i + 1] is the C table's entry i
axp_adc_info ==
    << [reg |-> 86,  en_reg |-> AXP_REG_ADCENABLE1, en_bit |-> 5],  \* 0x56
       [reg |-> 88,  en_reg |-> AXP_REG_ADCENABLE1, en_bit |-> 4],  \* 0x58
       [reg |-> 90,  en_reg |-> AXP_REG_ADCENABLE1, en_bit |-> 3],  \* 0x5a
       [reg |-> 92,  en_reg |-> AXP_REG_ADCENABLE1, en_bit |-> 2],  \* 0x5c
       [reg |-> 94,  en_reg |-> AXP_REG_ADCENABLE2, en_bit |-> 7],  \* 0x5e
       [reg |-> 98,  en_reg |-> AXP_REG_ADCENABLE1, en_bit |-> 1],  \* 0x62
       [reg |-> 120, en_reg |-> AXP_REG_ADCENABLE1, en_bit |-> 7],  \* 0x78
       [reg |-> 122, en_reg |-> AXP_REG_ADCENABLE1, en_bit |-> 6],  \* 0x7a
       [reg |-> 124, en_reg |-> AXP_REG_ADCENABLE1, en_bit |-> 6],  \* 0x7c
       [reg |-> 126, en_reg |-> AXP_REG_ADCENABLE1, en_bit |-> 1],  \* 0x7e
       [reg |-> 112, en_reg |-> 255, en_bit |-> 0] >>               \* 0x70

-----------------------------------------------------------------------------
(* The register bus (i2c-async): a transaction succeeds or fails as a     *)
(* whole.  A failed write or modify leaves the registers as they were.     *)

Bus(kind, reg, ok) == [kind |-> kind, reg |-> reg, ok |-> ok]

\* The outcomes a write transaction can have now
WriteOutcomes == IF faults > 0 THEN {TRUE, FALSE} ELSE {TRUE}
\* The outcomes a read transaction can have
ReadOutcomes == {TRUE, FALSE}

\* i2c_reg_write of the two bytes `image` at `reg`
i2c_reg_write(r, reg, image, ok) ==
    IF ok
    THEN [x \in DOMAIN r |->
            IF x = reg THEN image[1]
            ELSE IF x = reg + 1 THEN image[2]
            ELSE r[x]]
    ELSE r

\* i2c_reg_modify1: new = (old AND NOT clr) OR set, truncated to 8 bits
i2c_reg_modify1(r, reg, clr, set, ok) ==
    IF ok
    THEN [r EXCEPT ![reg] = BitOr(BitAnd(@, Not8(clr)), set) % 256]
    ELSE r

\* i2c_reg_setbit1: modify1 with clr = 1 << bit, set = value << bit
i2c_reg_setbit1(r, reg, bit, value, ok) ==
    i2c_reg_modify1(r, reg, Shl(1, bit), Shl(value, bit), ok)

\* i2c_reg_read1: the register's value, or a negative status on failure
i2c_reg_read1(r, reg, ok) == IF ok THEN r[reg] ELSE -1

Snapshot ==
    [adc_enable |-> adc_enable,
     chargecurrent_setting |-> chargecurrent_setting,
     regs |-> regs]

Call(op, arg, ret, bus) == [op |-> op, arg |-> arg, ret |-> ret, bus |-> bus]

NoCall == Call("none", <<>>, <<>>, <<>>)

-----------------------------------------------------------------------------
(* ADC enable mask *)

\* lines 379-387: the register image computed from the requested bits
RECURSIVE adc_enable_image(_, _, _)
adc_enable_image(i, adc_bits, image) ==
    IF i >= NUM_ADC_CHANNELS THEN image
    ELSE LET info == axp_adc_info[i + 1] IN
         IF info.en_reg = 255
         THEN adc_enable_image(i + 1, adc_bits, image)
         ELSE IF BitAnd(adc_bits, Shl(1, i)) # 0
         THEN adc_enable_image(i + 1, adc_bits,
                  [image EXCEPT ![info.en_reg - 130 + 1] =
                       BitOr(@, Shl(1, info.en_bit))])
         ELSE adc_enable_image(i + 1, adc_bits, image)

\* lines 389-393: charge and discharge current share an enable bit
adc_paired_bits(adc_bits) ==
    IF BitAnd(adc_bits, BitOr(Shl(1, ADC_CHARGE_CURRENT),
                              Shl(1, ADC_DISCHARGE_CURRENT))) # 0
    THEN BitOr(BitOr(adc_bits, Shl(1, ADC_CHARGE_CURRENT)),
               Shl(1, ADC_DISCHARGE_CURRENT))
    ELSE adc_bits

\* lines 395-399: the bits the battery power ADC requires, in the image only
adc_power_image(adc_bits, image) ==
    IF BitAnd(adc_bits, Shl(1, ADC_BATTERY_POWER)) # 0
    THEN [image EXCEPT ![1] =
            BitOr(BitOr(@, Shl(1, axp_adc_info[ADC_DISCHARGE_CURRENT + 1].en_bit)),
                  Shl(1, axp_adc_info[ADC_BATTERY_VOLTAGE + 1].en_bit))]
    ELSE image

\* The whole of axp_adc_set_enabled on driver state s = [adc_enable, regs]:
\* the state after it and the bus transactions it issued.
adc_set_enabled(s, adc_bits, ok) ==
    IF adc_bits = s.adc_enable
    THEN [adc_enable |-> s.adc_enable, regs |-> s.regs, bus |-> <<>>]
    ELSE LET image == adc_enable_image(0, adc_bits, <<0, 0>>)
             bits == adc_paired_bits(adc_bits)
             final == adc_power_image(bits, image)
         IN  [adc_enable |-> bits,
              regs |-> i2c_reg_write(s.regs, AXP_REG_ADCENABLE1, final, ok),
              bus |-> <<Bus("write", AXP_REG_ADCENABLE1, ok)>>]

axp_adc_set_enabled(adc_bits) ==
    \E ok \in WriteOutcomes :
    \E r \in {adc_set_enabled([adc_enable |-> adc_enable, regs |-> regs],
                              adc_bits, ok)} :
        /\ adc_enable' = r.adc_enable
        /\ regs' = r.regs
        /\ faults' = IF r.bus # <<>> /\ ~ok THEN faults - 1 ELSE faults
        /\ call' = Call("axp_adc_set_enabled", <<adc_bits>>, <<>>, r.bus)
        /\ pre' = Snapshot
        /\ UNCHANGED <<chargecurrent_setting, chip_id, simVars, otherVars>>

axp_adc_get_enabled ==
    /\ call' = Call("axp_adc_get_enabled", <<>>, <<adc_enable>>, <<>>)
    /\ pre' = Snapshot
    /\ UNCHANGED <<axpVars, simVars, otherVars>>

-----------------------------------------------------------------------------
(* ADC reads.  The ADC data registers are written by the hardware: a read  *)
(* returns whatever bytes the converter holds at that moment.              *)

\* Contents of the three data bytes of a channel: all clear, only bits the
\* parse masks off in the second byte, a low code, all set
AdcByteSamples == {<<0, 0, 0>>, <<0, 32, 1>>, <<1, 0, 128>>, <<255, 255, 255>>}

\* The raw code assembled as one 16-bit big-endian value
adc_parse_16bit(adc, b) ==
    IF adc = ADC_BATTERY_POWER
    THEN BitOr(BitOr(Shl(b[1], 16), Shl(b[2], 8)), b[3])
    ELSE BitOr(Shl(b[1], 8), b[2])

\* lines 320-326: the raw code assembled from the bytes read
adc_parse(adc, b) ==
    IF adc = ADC_BATTERY_POWER
    THEN BitOr(BitOr(Shl(b[1], 16), Shl(b[2], 8)), b[3])
    ELSE IF adc = ADC_CHARGE_CURRENT \/ adc = ADC_DISCHARGE_CURRENT
    THEN BitOr(Shl(b[1], 5), BitAnd(b[2], 31))
    ELSE BitOr(Shl(b[1], 4), BitAnd(b[2], 15))

\* lines 314: the number of bytes read for a channel
adc_count(adc) == IF adc = ADC_BATTERY_POWER THEN 3 ELSE 2

\* adc_read_raw without the check of lines 308-310
adc_read_raw_unchecked(enable, adc, ok, b) ==
    [ret |-> IF ok THEN adc_parse(adc, b) ELSE INT_MIN,
     bus |-> <<Bus("read", axp_adc_info[adc + 1].reg, ok)>>]

\* axp_adc_read_raw with mask `enable`: the value returned and the bus
\* transactions issued; `ok` and `b` are the outcome and bytes of the read.
adc_read_raw(enable, adc, ok, b) ==
    IF BitAnd(enable, Shl(1, adc)) = 0
    THEN [ret |-> INT_MIN, bus |-> <<>>]
    ELSE [ret |-> IF ok THEN adc_parse(adc, b) ELSE INT_MIN,
          bus |-> <<Bus("read", axp_adc_info[adc + 1].reg, ok)>>]

\* The conversions with the quotient rounded to the nearest integer
conv_raw_nearest(adc, value) ==
    CASE adc = ADC_ACIN_VOLTAGE \/ adc = ADC_VBUS_VOLTAGE -> (value * 17 + 5) \div 10
      [] adc = ADC_ACIN_CURRENT -> (value * 5 + 4) \div 8
      [] adc = ADC_VBUS_CURRENT -> (value * 3 + 4) \div 8
      [] adc = ADC_INTERNAL_TEMP -> value - 1447
      [] adc = ADC_TS_INPUT -> (value * 4 + 2) \div 5
      [] adc = ADC_BATTERY_VOLTAGE -> (value * 11 + 5) \div 10
      [] adc = ADC_CHARGE_CURRENT \/ adc = ADC_DISCHARGE_CURRENT -> (value + 1) \div 2
      [] adc = ADC_APS_VOLTAGE -> (value * 7 + 2) \div 5
      [] adc = ADC_BATTERY_POWER -> (value * 11 + 10) \div 20
      [] OTHER -> INT_MIN

\* axp_adc_conv_raw: C's / truncates, and every dividend here is >= 0
axp_adc_conv_raw(adc, value) ==
    CASE adc = ADC_ACIN_VOLTAGE \/ adc = ADC_VBUS_VOLTAGE -> (value * 17) \div 10
      [] adc = ADC_ACIN_CURRENT -> (value * 5) \div 8
      [] adc = ADC_VBUS_CURRENT -> (value * 3) \div 8
      [] adc = ADC_INTERNAL_TEMP -> value - 1447
      [] adc = ADC_TS_INPUT -> (value * 4) \div 5
      [] adc = ADC_BATTERY_VOLTAGE -> (value * 11) \div 10
      [] adc = ADC_CHARGE_CURRENT \/ adc = ADC_DISCHARGE_CURRENT -> value \div 2
      [] adc = ADC_APS_VOLTAGE -> (value * 7) \div 5
      [] adc = ADC_BATTERY_POWER -> (value * 11) \div 20
      [] OTHER -> INT_MIN

\* lines 333-360: the value axp_adc_conv_raw computes before it divides (the
\* product, or the difference of the temperature channel)
conv_dividend(adc, value) ==
    CASE adc = ADC_ACIN_VOLTAGE \/ adc = ADC_VBUS_VOLTAGE -> value * 17
      [] adc = ADC_ACIN_CURRENT -> value * 5
      [] adc = ADC_VBUS_CURRENT -> value * 3
      [] adc = ADC_INTERNAL_TEMP -> value - 1447
      [] adc = ADC_TS_INPUT -> value * 4
      [] adc = ADC_BATTERY_VOLTAGE -> value * 11
      [] adc = ADC_CHARGE_CURRENT \/ adc = ADC_DISCHARGE_CURRENT -> value
      [] adc = ADC_APS_VOLTAGE -> value * 7
      [] adc = ADC_BATTERY_POWER -> value * 11
      [] OTHER -> INT_MIN

\* The inputs of one ADC read: whether the bus would answer, and the bytes
\* the data registers hold.  A failed read transfers no bytes; a disabled
\* converter holds zeros.
AdcReadInputs(adc) ==
    IF BitAnd(adc_enable, Shl(1, adc)) = 0
    THEN {[ok |-> TRUE, b |-> SubSeq(<<0, 0, 0>>, 1, adc_count(adc))]}
    ELSE {[ok |-> FALSE, b |-> <<>>]} \cup
         {[ok |-> TRUE, b |-> SubSeq(b, 1, adc_count(adc))] : b \in AdcByteSamples}

axp_adc_read_raw(adc) ==
    \E in \in AdcReadInputs(adc) :
    \E r \in {adc_read_raw(adc_enable, adc, in.ok, in.b)} :
        /\ call' = Call("axp_adc_read_raw", <<adc, in.b>>, <<r.ret>>, r.bus)
        /\ pre' = Snapshot
        /\ UNCHANGED <<axpVars, simVars, otherVars>>

\* lines 297-304
adc_read(enable, adc, ok, b) ==
    LET r == adc_read_raw(enable, adc, ok, b) IN
    [ret |-> IF r.ret = INT_MIN THEN INT_MIN ELSE axp_adc_conv_raw(adc, r.ret),
     bus |-> r.bus]

axp_adc_read(adc) ==
    \E in \in AdcReadInputs(adc) :
    \E r \in {adc_read(adc_enable, adc, in.ok, in.b)} :
        /\ call' = Call("axp_adc_read", <<adc, in.b>>, <<r.ret>>, r.bus)
        /\ pre' = Snapshot
        /\ UNCHANGED <<axpVars, simVars, otherVars>>

-----------------------------------------------------------------------------
(* Battery status *)

\* Values the power status register can hold: nothing plugged, charging
\* bit alone, VBUS present, VBUS present and charging, ACIN present,
\* ACIN present and charging with every other bit set.
PowerStatusSamples == {0, 4, 32, 36, 128, 255, 11}

\* battery_status with the test of line 261 written d <= 0
battery_status_le(r, d) ==
    IF r >= 0
    THEN IF BitAnd(r, 4) # 0 THEN AXP_BATT_CHARGING
         ELSE IF BitAnd(r, 240) = 0 THEN AXP_BATT_DISCHARGING
         ELSE IF d <= 0 THEN AXP_BATT_FULL
         ELSE AXP_BATT_DISCHARGING
    ELSE AXP_BATT_DISCHARGING

\* lines 241-265; r is the power status read (negative on failure) and d the
\* raw discharge current reading, taken only when the code reaches line 260
battery_status(r, d) ==
    IF r >= 0
    THEN IF BitAnd(r, 4) # 0 THEN AXP_BATT_CHARGING
         ELSE IF BitAnd(r, 240) = 0 THEN AXP_BATT_DISCHARGING
         ELSE IF d = 0 THEN AXP_BATT_FULL
         ELSE AXP_BATT_DISCHARGING
    ELSE AXP_BATT_DISCHARGING

\* whether axp_battery_status reaches the discharge current read of line 260
battery_status_reads_adc(r) ==
    r >= 0 /\ BitAnd(r, 4) = 0 /\ BitAnd(r, 240) # 0

\* The inputs of the discharge current read of line 260, when it is reached
BatteryAdcInputs(r) ==
    IF battery_status_reads_adc(r)
    THEN AdcReadInputs(ADC_DISCHARGE_CURRENT)
    ELSE {[ok |-> TRUE, b |-> <<>>]}

\* axp_battery_status: the status returned, the discharge current reading it
\* took (INT_MIN when it took none) and the bus transactions issued
battery_status_call(enable, r, in) ==
    LET first == <<Bus("read", AXP_REG_POWERSTATUS, r >= 0)>> IN
    IF battery_status_reads_adc(r)
    THEN LET d == adc_read_raw(enable, ADC_DISCHARGE_CURRENT, in.ok, in.b)
         IN  [ret |-> battery_status(r, d.ret), d |-> d.ret,
              bus |-> first \o d.bus]
    ELSE [ret |-> battery_status(r, 0), d |-> INT_MIN, bus |-> first]

axp_battery_status ==
    \E ok \in ReadOutcomes, status \in PowerStatusSamples :
    \E r \in {IF ok THEN status ELSE -1} :
    \E in \in BatteryAdcInputs(r) :
    \E c \in {battery_status_call(adc_enable, r, in)} :
        /\ call' = Call("axp_battery_status", <<r, c.d>>, <<c.ret>>, c.bus)
        /\ pre' = Snapshot
        /\ UNCHANGED <<axpVars, simVars, otherVars>>

-----------------------------------------------------------------------------
(* Input status *)

AXP_REG_CHARGESTATUS == 1         \* 0x01

AXP_INPUT_AC == 1                 \* 1 << 0
AXP_INPUT_USB == 2                \* 1 << 1
AXP_INPUT_BATTERY == 4            \* 1 << 2

POWER_INPUT_MAIN_CHARGER == 5     \* 0x04 | POWER_INPUT_MAIN
POWER_INPUT_USB_CHARGER == 10     \* 0x08 | POWER_INPUT_USB
POWER_INPUT_BATTERY == 16         \* 0x10

\* A build with a removable-battery switch
SwitchBuild == [HAVE_BATTERY_SWITCH |-> TRUE]

\* input_status with USB reported whenever VBUS is present
input_status_vbus(bs, r, c) ==
    IF r < 0 THEN IF bs.HAVE_BATTERY_SWITCH THEN 0 ELSE AXP_INPUT_BATTERY
    ELSE BitOr(BitOr(BitOr(IF bs.HAVE_BATTERY_SWITCH THEN 0 ELSE AXP_INPUT_BATTERY,
                           IF BitAnd(r, 128) # 0 THEN AXP_INPUT_AC ELSE 0),
                     IF BitAnd(r, 32) # 0 THEN AXP_INPUT_USB ELSE 0),
               IF bs.HAVE_BATTERY_SWITCH /\ c >= 0 /\ BitAnd(c, 32) # 0
               THEN AXP_INPUT_BATTERY ELSE 0)

\* lines 267-295: the status, from the power status read r and, in a build
\* with a battery switch, the charge status read c (negative on failure)
input_status(bs, r, c) ==
    LET base == IF bs.HAVE_BATTERY_SWITCH THEN 0 ELSE AXP_INPUT_BATTERY IN
    IF r < 0 THEN base
    ELSE LET ac == IF BitAnd(r, 128) # 0 THEN BitOr(base, AXP_INPUT_AC) ELSE base
             usb == IF BitAnd(r, 32) # 0 /\ BitAnd(r, 2) = 0
                    THEN BitOr(ac, AXP_INPUT_USB) ELSE ac
         IN IF bs.HAVE_BATTERY_SWITCH /\ c >= 0 /\ BitAnd(c, 32) # 0
            THEN BitOr(usb, AXP_INPUT_BATTERY)
            ELSE usb

\* The register reads axp_input_status issues
input_status_bus(bs, r, c) ==
    <<Bus("read", AXP_REG_POWERSTATUS, r >= 0)>>
    \o (IF bs.HAVE_BATTERY_SWITCH /\ r >= 0
        THEN <<Bus("read", AXP_REG_CHARGESTATUS, c >= 0)>> ELSE <<>>)

\* lines 653-670
power_state(bs, input) ==
    LET main == IF BitAnd(input, AXP_INPUT_AC) # 0
                THEN POWER_INPUT_MAIN_CHARGER ELSE 0
        usb == IF BitAnd(input, AXP_INPUT_USB) # 0
               THEN BitOr(main, POWER_INPUT_USB_CHARGER) ELSE main
    IN IF bs.HAVE_BATTERY_SWITCH /\ BitAnd(input, AXP_INPUT_BATTERY) # 0
       THEN BitOr(usb, POWER_INPUT_BATTERY)
       ELSE usb

\* What the power status register can hold: nothing, the short bit, the
\* charging bit, VBUS, VBUS shorted, AC, AC shorted, AC with VBUS, AC with
\* VBUS shorted, everything but the short bit, everything
InputStatusSamples == {0, 2, 4, 32, 34, 128, 130, 160, 162, 253, 255}

\* What the two reads of one call return; -1 stands for a read that fails or
\* that the build does not make
InputReads ==
    {<<-1, -1>>} \cup
    {<<r, c>> : r \in InputStatusSamples,
                c \in IF build.HAVE_BATTERY_SWITCH THEN {-1, 0, 32, 223} ELSE {-1}}

axp_input_status ==
    \E in \in InputReads :
        /\ call' = Call("axp_input_status", in,
                        <<input_status(build, in[1], in[2])>>,
                        input_status_bus(build, in[1], in[2]))
        /\ pre' = Snapshot
        /\ UNCHANGED <<axpVars, simVars, otherVars>>

power_input_status ==
    \E in \in InputReads :
        /\ call' = Call("power_input_status", in,
                        <<power_state(build, input_status(build, in[1], in[2]))>>,
                        input_status_bus(build, in[1], in[2]))
        /\ pre' = Snapshot
        /\ UNCHANGED <<axpVars, simVars, otherVars>>

-----------------------------------------------------------------------------
(* Initialization *)

AXP_REG_CHIP_ID == 3              \* 0x03

\* The chip identification register is fixed by the silicon
ChipIdSamples == {3}

\* lines 152-159: the mask parsed from the two enable registers read
RECURSIVE init_parse_enabled(_, _, _)
init_parse_enabled(i, image, enable) ==
    IF i >= NUM_ADC_CHANNELS THEN enable
    ELSE LET info == axp_adc_info[i + 1] IN
         IF info.en_reg = 255
         THEN init_parse_enabled(i + 1, image, enable)
         ELSE IF BitAnd(image[info.en_reg - AXP_REG_ADCENABLE1 + 1],
                        info.en_bit) # 0
         THEN init_parse_enabled(i + 1, image, BitOr(enable, Shl(1, i)))
         ELSE init_parse_enabled(i + 1, image, enable)

\* lines 161-165: battery power is on when its two inputs are
init_power_enabled(enable) ==
    IF BitAnd(enable, Shl(1, ADC_BATTERY_VOLTAGE)) # 0
       /\ BitAnd(enable, Shl(1, ADC_DISCHARGE_CURRENT)) # 0
    THEN BitOr(enable, Shl(1, ADC_BATTERY_POWER))
    ELSE enable

\* axp_init_enabled_adcs: the mask it leaves, given the enable read's outcome
init_enabled_adcs(r, ok) ==
    IF ~ok THEN 0
    ELSE init_power_enabled(
             init_parse_enabled(0, <<r[AXP_REG_ADCENABLE1],
                                     r[AXP_REG_ADCENABLE2]>>, 0))

\* lines 177-179: the cached charge current index
init_chargecurrent(value) == IF value < 0 THEN -1 ELSE BitAnd(value, 15)

\* axp_init on registers r: the driver state and registers it leaves
init_result(r, okid, oken, okw, okcc, id) ==
    LET found == init_enabled_adcs(r, oken)
        e == adc_set_enabled([adc_enable |-> found, regs |-> r],
                             BitOr(found, Shl(1, ADC_DISCHARGE_CURRENT)), okw)
    IN  [chip_id |-> IF okid THEN id ELSE -1,
         adc_enable |-> e.adc_enable,
         regs |-> e.regs,
         chargecurrent_setting |->
             init_chargecurrent(
                 i2c_reg_read1(e.regs, AXP_REG_CHARGECONTROL1, okcc)),
         wrote |-> e.bus # <<>>,
         bus |-> <<Bus("read", AXP_REG_CHIP_ID, okid),
                   Bus("read", AXP_REG_ADCENABLE1, oken)>> \o e.bus
                 \o <<Bus("read", AXP_REG_CHARGECONTROL1, okcc)>>]

axp_init ==
    \E okid \in ReadOutcomes, oken \in ReadOutcomes, okcc \in ReadOutcomes,
       okw \in WriteOutcomes, id \in ChipIdSamples :
    \E r \in {init_result(regs, okid, oken, okw, okcc, id)} :
        /\ chip_id' = r.chip_id
        /\ adc_enable' = r.adc_enable
        /\ regs' = r.regs
        /\ faults' = IF r.wrote /\ ~okw THEN faults - 1 ELSE faults
        /\ chargecurrent_setting' = r.chargecurrent_setting
        /\ call' = Call("axp_init", <<>>, <<>>, r.bus)
        /\ pre' = Snapshot
        /\ UNCHANGED <<simVars, otherVars>>

\* axp_init_enabled_adcs on its own (lines 135-166)
axp_init_enabled_adcs ==
    \E okid \in ReadOutcomes, oken \in ReadOutcomes, id \in ChipIdSamples :
        /\ adc_enable' = init_enabled_adcs(regs, oken)
        /\ chip_id' = IF okid THEN id ELSE -1
        /\ call' = Call("axp_init_enabled_adcs", <<>>, <<>>,
                        <<Bus("read", AXP_REG_CHIP_ID, okid),
                          Bus("read", AXP_REG_ADCENABLE1, oken)>>)
        /\ pre' = Snapshot
        /\ UNCHANGED <<chargecurrent_setting, regs, faults, simVars, otherVars>>

-----------------------------------------------------------------------------
(* Specification of the ADC part of the driver *)

\* The configuration registers the driver reads and writes
ConfigRegs ==
    {16, 18, 35, 38, 39, 40, 144, 145,
     AXP_REG_CHARGECONTROL1, AXP_REG_ADCENABLE1, AXP_REG_ADCENABLE2}

\* Power-on contents of ADC enable register 1: nothing, the chip's reset
\* value 0x83, everything
Enable1Samples == {0, 131, 255}
Enable2Samples == {0, 128}

\* The masks a caller requests: nothing, one channel of enable register 2,
\* TS input, battery voltage, charge current, discharge current, APS voltage
\* and battery power alone, TS input with APS voltage (one enable bit), and
\* battery voltage with both currents and battery power.
AdcRequests == {0, 16, 32, 64, 128, 256, 512, 1024, 544, 1472}

AdcChannels == 0..(NUM_ADC_CHANNELS - 1)

\* A build without a removable-battery switch
PlainBuild == [HAVE_BATTERY_SWITCH |-> FALSE]

\* No disk opened, no button event posted, simulate_usb not called
ToolIdle ==
    /\ dh = -1
    /\ sector_size = 0
    /\ fds = <<>>
    /\ button_queue = <<>>
    /\ usb_pc = "idle"
    /\ usb_seen = <<>>

\* The part of the state outside the driver, where a specification does not
\* use it
SimIdle ==
    /\ driven = {}
    /\ files = <<>>
    /\ buf = <<>>
    /\ lastwrite = <<>>
    /\ ToolIdle
    /\ build = PlainBuild

\* The registers at power-on, given the ADC enable registers and the charge
\* control register
PowerOnRegs(e1, e2, cc) ==
    [x \in ConfigRegs |->
        IF x = AXP_REG_ADCENABLE1 THEN e1
        ELSE IF x = AXP_REG_ADCENABLE2 THEN e2
        ELSE IF x = AXP_REG_CHARGECONTROL1 THEN cc
        ELSE 0]

\* The state axp_init leaves, from power-on registers r0
AfterInit(r0, r) ==
    /\ adc_enable = r.adc_enable
    /\ chargecurrent_setting = r.chargecurrent_setting
    /\ chip_id = r.chip_id
    /\ regs = r.regs
    /\ call = Call("axp_init", <<>>, <<>>, r.bus)
    /\ pre = [adc_enable |-> 0, chargecurrent_setting |-> 0, regs |-> r0]

\* The driver after axp_init, for every sampled content of the enable
\* registers and either outcome of the enable read
InitAdcDriver ==
    \E e1 \in Enable1Samples, e2 \in Enable2Samples, oken \in ReadOutcomes,
       id \in ChipIdSamples :
    \E r0 \in {PowerOnRegs(e1, e2, 0)} :
    \E r \in {init_result(r0, TRUE, oken, TRUE, TRUE, id)} :
        AfterInit(r0, r)

InitAdc ==
    /\ InitAdcDriver
    /\ faults = MaxWriteFaults
    /\ SimIdle

NextAdc ==
    \/ \E m \in AdcRequests : axp_adc_set_enabled(m)
    \/ axp_adc_get_enabled

SpecAdc == InitAdc /\ [][NextAdc]_vars

\* Reads of the ADCs and of the battery status, on a bus whose writes succeed
InitAdcRead ==
    /\ InitAdcDriver
    /\ faults = 0
    /\ SimIdle

NextAdcRead ==
    \/ \E m \in AdcRequests : axp_adc_set_enabled(m)
    \/ \E adc \in AdcChannels : axp_adc_read_raw(adc)
    \/ \E adc \in AdcChannels : axp_adc_read(adc)
    \/ axp_battery_status

SpecAdcRead == InitAdcRead /\ [][NextAdcRead]_vars

\* Raw codes handed to axp_adc_conv_raw directly: the ends of the 12-bit,
\* 13-bit and 24-bit ranges and codes whose quotients are inexact
RawSamples == {0, 1, 3, 7, 4095, 8191, 16777215}

\* Channel indices handed to axp_adc_conv_raw: the 11 channels and their
\* neighbours on both sides
ConvChannels == (-2)..(NUM_ADC_CHANNELS + 1)

\* A direct call of axp_adc_conv_raw (lines 329-365)
adc_conv_raw(adc, value) ==
    /\ call' = Call("axp_adc_conv_raw", <<adc, value>>,
                    <<axp_adc_conv_raw(adc, value)>>, <<>>)
    /\ pre' = Snapshot
    /\ UNCHANGED <<axpVars, simVars, otherVars>>

NextAdcConv ==
    \/ \E m \in AdcRequests : axp_adc_set_enabled(m)
    \/ \E adc \in AdcChannels : axp_adc_read(adc)
    \/ \E adc \in ConvChannels, value \in RawSamples : adc_conv_raw(adc, value)

SpecAdcConv == InitAdcRead /\ [][NextAdcConv]_vars

\* Contents of the two ADC enable registers when the driver starts: of
\* register 1 every value of its bits 0-2, every single bit, the reset value
\* 0x83 and values with the high bits set; of register 2 the values of its
\* bits 0 and 7
BootEnable1 == (0..7) \cup {8, 16, 32, 64, 128, 131, 192, 248, 254, 255}
BootEnable2 == {0, 1, 128, 129}

\* The driver before axp_init, on a bus whose writes succeed
InitBoot ==
    /\ adc_enable = 0
    /\ chargecurrent_setting = 0
    /\ chip_id = 0
    /\ \E e1 \in BootEnable1, e2 \in BootEnable2 : regs = PowerOnRegs(e1, e2, 0)
    /\ faults = 0
    /\ call = NoCall
    /\ SimIdle
    /\ pre = Snapshot

NextBoot ==
    \/ axp_init_enabled_adcs
    \/ axp_init

SpecBoot == InitBoot /\ [][NextBoot]_vars

\* The input status, in a build with and in one without a battery switch
InitInput ==
    /\ InitAdcDriver
    /\ faults = 0
    /\ driven = {}
    /\ files = <<>>
    /\ buf = <<>>
    /\ lastwrite = <<>>
    /\ ToolIdle
    /\ build \in {PlainBuild, SwitchBuild}

NextInput ==
    \/ axp_input_status
    \/ power_input_status

SpecInput == InitInput /\ [][NextInput]_vars

-----------------------------------------------------------------------------
(* Supplies *)

AXP_SUPPLY_DCDC1 == 0
AXP_SUPPLY_DCDC2 == 1
AXP_SUPPLY_DCDC3 == 2
AXP_SUPPLY_LDO1 == 3
AXP_SUPPLY_LDO2 == 4
AXP_SUPPLY_LDO3 == 5
AXP_SUPPLY_LDO_IO0 == 6
AXP_NUM_SUPPLIES == 7

AXP_SUPPLY_NOT_PRESENT == INT_MIN
AXP_SUPPLY_DISABLED == -1

SupplyInfo(volt_reg, volt_reg_mask, en_reg, en_bit, min_mV, max_mV, step_mV) ==
    [volt_reg |-> volt_reg, volt_reg_mask |-> volt_reg_mask,
     en_reg |-> en_reg, en_bit |-> en_bit,
     min_mV |-> min_mV, max_mV |-> max_mV, step_mV |-> step_mV]

\* axp_supply_info[supply + 1] is the C table's entry `supply`; LDO1 has no
\* initializer, so all its fields are zero
axp_supply_info ==
    << SupplyInfo(38, 127, 18, 0, 700, 3500, 25),      \* DCDC1: 0x26 0x7f 0x12
       SupplyInfo(35, 63, 16, 0, 700, 2275, 25),       \* DCDC2: 0x23 0x3f 0x10
       SupplyInfo(39, 127, 18, 1, 700, 3500, 25),      \* DCDC3: 0x27 0x7f 0x12
       SupplyInfo(0, 0, 0, 0, 0, 0, 0),                \* LDO1
       SupplyInfo(40, 240, 18, 2, 1800, 3300, 100),    \* LDO2:  0x28 0xf0 0x12
       SupplyInfo(40, 15, 18, 3, 1800, 3300, 100),     \* LDO3:  0x28 0x0f 0x12
       SupplyInfo(145, 240, 144, 255, 1800, 3300, 100) \* LDO_IO0: 0x91 0xf0 0x90
    >>

\* find_first_set_bit of system.h: the index of the lowest set bit
RECURSIVE find_first_set_bit(_)
find_first_set_bit(x) ==
    IF x % 2 = 1 THEN 0 ELSE 1 + find_first_set_bit(x \div 2)

\* C's integer division, which truncates toward zero
CDiv(a, b) == IF a >= 0 THEN a \div b ELSE -((-a) \div b)

\* supply_set_voltage with the upper limit of line 189 left out
supply_set_voltage_nomax(r, supply, voltage, okv, oke) ==
    LET info == axp_supply_info[supply + 1] IN
    IF info.volt_reg = 0 \/ info.volt_reg_mask = 0
    THEN [regs |-> r, bus |-> <<>>]
    ELSE IF voltage > 0 /\ info.step_mV # 0 /\ voltage < info.min_mV
    THEN [regs |-> r, bus |-> <<>>]
    ELSE LET writes == voltage > 0 /\ info.step_mV # 0
             regval == CDiv(voltage - info.min_mV, info.step_mV)
             r1 == IF writes
                   THEN i2c_reg_modify1(r, info.volt_reg, info.volt_reg_mask,
                                        regval, okv)
                   ELSE r
             b1 == IF writes
                   THEN <<Bus("modify", info.volt_reg, okv)>>
                   ELSE <<>>
         IN  IF info.en_bit # 255
             THEN [regs |-> i2c_reg_setbit1(r1, info.en_reg, info.en_bit,
                                            IF voltage > 0 THEN 1 ELSE 0, oke),
                   bus |-> b1 \o <<Bus("setbit", info.en_reg, oke)>>]
             ELSE [regs |-> r1, bus |-> b1]

\* axp_supply_set_voltage on registers r: the registers it leaves and the
\* bus transactions it issues; okv and oke are the outcomes of the voltage
\* modify and of the enable setbit
supply_set_voltage(r, supply, voltage, okv, oke) ==
    LET info == axp_supply_info[supply + 1] IN
    IF info.volt_reg = 0 \/ info.volt_reg_mask = 0
    THEN [regs |-> r, bus |-> <<>>]
    ELSE IF voltage > 0 /\ info.step_mV # 0
            /\ (voltage < info.min_mV \/ voltage > info.max_mV)
    THEN [regs |-> r, bus |-> <<>>]
    ELSE LET writes == voltage > 0 /\ info.step_mV # 0
             regval == CDiv(voltage - info.min_mV, info.step_mV)
             r1 == IF writes
                   THEN i2c_reg_modify1(r, info.volt_reg, info.volt_reg_mask,
                                        regval, okv)
                   ELSE r
             b1 == IF writes
                   THEN <<Bus("modify", info.volt_reg, okv)>>
                   ELSE <<>>
         IN  IF info.en_bit # 255
             THEN [regs |-> i2c_reg_setbit1(r1, info.en_reg, info.en_bit,
                                            IF voltage > 0 THEN 1 ELSE 0, oke),
                   bus |-> b1 \o <<Bus("setbit", info.en_reg, oke)>>]
             ELSE [regs |-> r1, bus |-> b1]

\* The test of line 222, as C parses it: r & ((1 << en_bit) == 0)
supply_bit_clear(r, en_bit) ==
    BitAnd(r, IF Shl(1, en_bit) = 0 THEN 1 ELSE 0) # 0

\* lines 210-225: whether axp_supply_get_voltage reports the supply disabled,
\* given the enable register read r (negative on failure)
supply_disabled(supply, r) ==
    IF r < 0 THEN TRUE
    ELSE IF supply = AXP_SUPPLY_LDO_IO0 THEN BitAnd(r, 7) # 2
    ELSE supply_bit_clear(r, axp_supply_info[supply + 1].en_bit)

\* lines 235-237: the voltage decoded from the voltage register
supply_decode(info, r) ==
    info.min_mV
    + Shr(BitAnd(r, info.volt_reg_mask),
          find_first_set_bit(info.volt_reg_mask)) * info.step_mV

\* axp_supply_get_voltage on registers r; oke and okv are the outcomes of the
\* enable register read and of the voltage register read
supply_get_voltage(r, supply, oke, okv) ==
    LET info == axp_supply_info[supply + 1]
        en == <<Bus("read", info.en_reg, oke)>>
    IN  IF info.volt_reg = 0
        THEN [ret |-> AXP_SUPPLY_NOT_PRESENT, bus |-> <<>>]
        ELSE IF info.en_reg # 0
                /\ supply_disabled(supply, i2c_reg_read1(r, info.en_reg, oke))
        THEN [ret |-> AXP_SUPPLY_DISABLED, bus |-> en]
        ELSE LET b == IF info.en_reg # 0 THEN en ELSE <<>> IN
             IF info.volt_reg_mask = 0
             THEN [ret |-> info.min_mV, bus |-> b]
             ELSE [ret |-> IF okv THEN supply_decode(info, r[info.volt_reg])
                           ELSE 0,
                   bus |-> b \o <<Bus("read", info.volt_reg, okv)>>]

axp_supply_set_voltage(supply, voltage) ==
    \E okv \in WriteOutcomes, oke \in WriteOutcomes :
    \E r \in {supply_set_voltage(regs, supply, voltage, okv, oke)} :
        /\ regs' = r.regs
        /\ faults' = faults - Cardinality({i \in 1..Len(r.bus) : ~r.bus[i].ok})
        /\ faults' >= 0
        /\ call' = Call("axp_supply_set_voltage", <<supply, voltage>>, <<>>,
                        r.bus)
        /\ pre' = Snapshot
        /\ UNCHANGED <<adc_enable, chargecurrent_setting, chip_id, simVars, otherVars>>

axp_supply_get_voltage(supply) ==
    \E oke \in ReadOutcomes, okv \in ReadOutcomes :
    \E r \in {supply_get_voltage(regs, supply, oke, okv)} :
        /\ call' = Call("axp_supply_get_voltage", <<supply>>, <<r.ret>>, r.bus)
        /\ pre' = Snapshot
        /\ UNCHANGED <<axpVars, simVars, otherVars>>

Supplies == 0..(AXP_NUM_SUPPLIES - 1)

\* The voltages a caller requests of a supply: disable, below the range, the
\* minimum, one and two steps above it, between two steps, the maximum, above
\* the range
VoltageRequests(supply) ==
    LET info == axp_supply_info[supply + 1] IN
    {0, info.min_mV - 1, info.min_mV, info.min_mV + info.step_mV,
     info.min_mV + 2 * info.step_mV, info.min_mV + info.step_mV + 1,
     info.max_mV, info.max_mV + 1}

\* Power-on contents of the supply registers: clear, or every supply enabled
\* (LDO_IO0 in LDO mode) with a mid-range voltage code in every field
SupplyRegSamples ==
    {PowerOnRegs(0, 0, 0),
     [x \in ConfigRegs |->
        CASE x = 16 -> 1 [] x = 18 -> 15 [] x = 144 -> 2
          [] x \in {35, 38, 39} -> 20
          [] x \in {40, 145} -> 102
          [] OTHER -> 0]}

\* The supplies one caller drives: the two DCDC converters that share an
\* enable register, the two LDOs that share a voltage register, DCDC2 with
\* the absent LDO1, and LDO_IO0 with DCDC1
SupplyGroups ==
    {{AXP_SUPPLY_DCDC1, AXP_SUPPLY_DCDC3},
     {AXP_SUPPLY_LDO2, AXP_SUPPLY_LDO3},
     {AXP_SUPPLY_DCDC2, AXP_SUPPLY_LDO1},
     {AXP_SUPPLY_LDO_IO0, AXP_SUPPLY_DCDC1}}

InitSupply ==
    /\ adc_enable = 0
    /\ chargecurrent_setting = 0
    /\ chip_id = 0
    /\ regs \in SupplyRegSamples
    /\ faults = 0
    /\ call = NoCall
    /\ pre = Snapshot
    /\ driven \in SupplyGroups
    /\ files = <<>>
    /\ buf = <<>>
    /\ lastwrite = <<>>
    /\ ToolIdle
    /\ build = PlainBuild

NextSupply ==
    \/ \E s \in driven : \E v \in VoltageRequests(s) :
          axp_supply_set_voltage(s, v)
    \/ \E s \in driven : axp_supply_get_voltage(s)

SpecSupply == InitSupply /\ [][NextSupply]_vars

-----------------------------------------------------------------------------
(* Charge current *)

chargecurrent_tbl ==
    <<100, 190, 280, 360, 450, 550, 630, 700,
      780, 880, 960, 1000, 1080, 1160, 1240, 1320>>

chargecurrent_tblsz == Len(chargecurrent_tbl)

\* lines 476-479: the first index whose entry exceeds maxcurrent
RECURSIVE charge_scan(_, _)
charge_scan(value, maxcurrent) ==
    IF value < chargecurrent_tblsz /\ chargecurrent_tbl[value + 1] <= maxcurrent
    THEN charge_scan(value + 1, maxcurrent)
    ELSE value

\* charge_select that takes the entry just above maxcurrent
charge_select_above(maxcurrent) ==
    LET value == charge_scan(0, maxcurrent) IN
    IF value >= chargecurrent_tblsz THEN chargecurrent_tblsz - 1
    ELSE value

\* lines 475-485: the index axp_set_charge_current selects
charge_select(maxcurrent) ==
    LET value == charge_scan(0, maxcurrent) IN
    IF value >= chargecurrent_tblsz THEN chargecurrent_tblsz - 1
    ELSE IF value > 0 THEN value - 1
    ELSE value

\* set_charge_current without the test of lines 487-489
set_charge_current_always(setting, r, maxcurrent, ok) ==
    LET value == charge_select(maxcurrent) IN
    [chargecurrent_setting |-> value,
     regs |-> i2c_reg_modify1(r, AXP_REG_CHARGECONTROL1, 15, value, ok),
     bus |-> <<Bus("modify", AXP_REG_CHARGECONTROL1, ok)>>]

\* axp_set_charge_current with cached index `setting` on registers r
set_charge_current(setting, r, maxcurrent, ok) ==
    LET value == charge_select(maxcurrent) IN
    IF value = setting
    THEN [chargecurrent_setting |-> setting, regs |-> r, bus |-> <<>>]
    ELSE [chargecurrent_setting |-> value,
          regs |-> i2c_reg_modify1(r, AXP_REG_CHARGECONTROL1, 15, value, ok),
          bus |-> <<Bus("modify", AXP_REG_CHARGECONTROL1, ok)>>]

\* axp_get_charge_current
get_charge_current(setting) ==
    IF setting < 0 THEN chargecurrent_tbl[1]
    ELSE chargecurrent_tbl[setting + 1]

axp_set_charge_current(maxcurrent) ==
    \E ok \in WriteOutcomes :
    \E r \in {set_charge_current(chargecurrent_setting, regs, maxcurrent, ok)} :
        /\ chargecurrent_setting' = r.chargecurrent_setting
        /\ regs' = r.regs
        /\ faults' = IF r.bus # <<>> /\ ~ok THEN faults - 1 ELSE faults
        /\ call' = Call("axp_set_charge_current", <<maxcurrent>>, <<>>, r.bus)
        /\ pre' = Snapshot
        /\ UNCHANGED <<adc_enable, chip_id, simVars, otherVars>>

axp_get_charge_current ==
    /\ call' = Call("axp_get_charge_current", <<>>,
                    <<get_charge_current(chargecurrent_setting)>>, <<>>)
    /\ pre' = Snapshot
    /\ UNCHANGED <<axpVars, simVars, otherVars>>

\* The limits a caller requests: negative, zero, around the first entries,
\* around 700, around the last entry, far above it
ChargeRequests ==
    {-100, 0, 99, 100, 101, 189, 190, 191, 699, 700, 701,
     1319, 1320, 1321, 10000}

\* Power-on contents of charge control register 1
ChargeControlSamples == {0, 200, 255}

\* The driver after axp_init, for every sampled content of the charge control
\* register and either outcome of its read
InitCharge ==
    /\ \E cc \in ChargeControlSamples, okcc \in ReadOutcomes,
          id \in ChipIdSamples :
       \E r0 \in {PowerOnRegs(0, 0, cc)} :
       \E r \in {init_result(r0, TRUE, TRUE, TRUE, okcc, id)} :
           AfterInit(r0, r)
    /\ faults = MaxWriteFaults
    /\ SimIdle

NextCharge ==
    \/ \E c \in ChargeRequests : axp_set_charge_current(c)
    \/ axp_get_charge_current

SpecCharge == InitCharge /\ [][NextCharge]_vars

\* The charge current calls together with further calls of axp_init, on a
\* bus whose reads and modifies may fail
NextChargeInit ==
    \/ \E c \in ChargeRequests : axp_set_charge_current(c)
    \/ axp_get_charge_current
    \/ axp_init

SpecChargeInit == InitCharge /\ [][NextChargeInit]_vars

-----------------------------------------------------------------------------
(* Simulated sector store (stubs.c): one host file per sector *)

SECTOR_SIZE == 512

HexUpper == <<"0", "1", "2", "3", "4", "5", "6", "7",
              "8", "9", "A", "B", "C", "D", "E", "F">>
HexLower == <<"0", "1", "2", "3", "4", "5", "6", "7",
              "8", "9", "a", "b", "c", "d", "e", "f">>

\* printf's %lX and %lx: the digits of n, most significant first
RECURSIVE FormatHex(_, _)
FormatHex(n, digits) ==
    IF n < 16 THEN <<digits[n + 1]>>
    ELSE FormatHex(n \div 16, digits) \o <<digits[(n % 16) + 1]>>

\* sprintf(name, "sector%lX.bin", n)
sector_name(n) == <<"sector">> \o FormatHex(n, HexUpper) \o <<".bin">>

\* the name with the digits in lower case
sector_name_lower(n) == <<"sector">> \o FormatHex(n, HexLower) \o <<".bin">>

\* the name ata_read_sectors opens for sector n
read_name(n) == sector_name(n)

\* fwrite(buf, 512, 1, f) on a file opened with "w": the file holds the first
\* 512 bytes of the buffer
fwrite(b) == SubSeq(b, 1, SECTOR_SIZE)

\* fread(buf, 512, 1, f): the file's first 512 bytes replace the start of the
\* buffer
fread(b, data) ==
    LET n == IF Len(data) < SECTOR_SIZE THEN Len(data) ELSE SECTOR_SIZE IN
    SubSeq(data, 1, n) \o SubSeq(b, n + 1, Len(b))

\* lines 56-67: the files after the loop; oks[i + 1] tells whether the fopen
\* of iteration i succeeds
RECURSIVE write_sectors(_, _, _, _, _, _)
write_sectors(i, fs, start, count, b, oks) ==
    IF i >= count THEN fs
    ELSE write_sectors(i + 1,
             IF oks[i + 1]
             THEN (sector_name(start + i) :> fwrite(b)) @@ fs
             ELSE fs,
             start, count, b, oks)

\* lines 77-88: the buffer after the loop; a file that does not exist cannot
\* be opened
RECURSIVE read_sectors(_, _, _, _, _, _)
read_sectors(i, fs, start, count, b, oks) ==
    IF i >= count THEN b
    ELSE read_sectors(i + 1, fs, start, count,
             IF read_name(start + i) \in DOMAIN fs /\ oks[i + 1]
             THEN fread(b, fs[read_name(start + i)])
             ELSE b,
             oks)

\* The fopen calls of a transfer, with their outcomes
FileOps(fs, kind, start, count, oks) ==
    [i \in 1..count |->
        Bus(kind, sector_name(start + i - 1),
            oks[i] /\ (kind = "fopen-w" \/ sector_name(start + i - 1) \in DOMAIN fs))]

\* What a write asks each sector to hold: bytes [i*512, (i+1)*512) of the
\* buffer for sector start + i
Asked(start, count, b, oks) ==
    [n \in start..(start + count - 1) |->
        [data |-> SubSeq(b, (n - start) * SECTOR_SIZE + 1,
                         (n - start + 1) * SECTOR_SIZE),
         single |-> (count = 1),
         ok |-> oks[n - start + 1]]]

ata_write_sectors(start, count, b) ==
    /\ Len(b) >= count * SECTOR_SIZE
    /\ \E oks \in [1..count -> BOOLEAN] :
        /\ files' = write_sectors(0, files, start, count, b, oks)
        /\ buf' = b
        /\ lastwrite' = Asked(start, count, b, oks) @@ lastwrite
        /\ call' = Call("ata_write_sectors", <<start, count, b>>, <<1>>,
                        FileOps(files, "fopen-w", start, count, oks))
        /\ pre' = Snapshot
        /\ UNCHANGED <<axpVars, driven, otherVars>>

ata_read_sectors(start, count, b) ==
    /\ Len(b) >= count * SECTOR_SIZE
    /\ \E oks \in [1..count -> BOOLEAN] :
        /\ buf' = read_sectors(0, files, start, count, b, oks)
        /\ call' = Call("ata_read_sectors", <<start, count, b>>, <<1>>,
                        FileOps(files, "fopen-r", start, count, oks))
        /\ pre' = Snapshot
        /\ UNCHANGED <<axpVars, driven, files, lastwrite, otherVars>>

\* The sectors a transfer starts at and the numbers of sectors it moves
StartSamples == {63, 64}
CountSamples == {1, 2}

\* The buffers a caller passes: one sector holding a ramp, two sectors of
\* different contents
BufferSamples ==
    {[i \in 1..SECTOR_SIZE |-> i % 256],
     [i \in 1..(2 * SECTOR_SIZE) |-> IF i <= SECTOR_SIZE THEN 17 ELSE 34]}

InitAta ==
    /\ adc_enable = 0
    /\ chargecurrent_setting = 0
    /\ chip_id = 0
    /\ regs = PowerOnRegs(0, 0, 0)
    /\ faults = 0
    /\ call = NoCall
    /\ SimIdle
    /\ pre = Snapshot

NextAta ==
    \/ \E start \in StartSamples, count \in CountSamples, b \in BufferSamples :
          ata_write_sectors(start, count, b)
    \/ \E start \in StartSamples, count \in CountSamples, b \in BufferSamples :
          ata_read_sectors(start, count, b)

SpecAta == InitAta /\ [][NextAta]_vars

-----------------------------------------------------------------------------
(* Simulated real-time clock (stubs.c) *)

\* C's % on int operands: the remainder has the sign of the dividend
CRem(a, b) == a - b * CDiv(a, b)

\* | on int operands in two's complement, negative ones included
RECURSIVE OrInt(_, _)
OrInt(a, b) ==
    IF a = 0 THEN b
    ELSE IF b = 0 THEN a
    ELSE IF a = -1 \/ b = -1 THEN -1
    ELSE (IF a % 2 = 1 \/ b % 2 = 1 THEN 1 ELSE 0)
         + 2 * OrInt(a \div 2, b \div 2)

\* ^ on non-negative int operands
RECURSIVE XorInt(_, _)
XorInt(a, b) ==
    IF a = 0 THEN b
    ELSE IF b = 0 THEN a
    ELSE (IF (a % 2) # (b % 2) THEN 1 ELSE 0)
         + 2 * XorInt(a \div 2, b \div 2)

\* The fields of struct tm that rtc_read uses
Tm(sec, min, hour, mday, mon, year) ==
    [tm_sec |-> sec, tm_min |-> min, tm_hour |-> hour,
     tm_mday |-> mday, tm_mon |-> mon, tm_year |-> year]

\* (x%10) | ((x/10) << 4), for x whose quotient is not negative
rtc_encode(x) == OrInt(CRem(x, 10), Shl(CDiv(x, 10), 4))

\* lines 139-159
rtc_value(address, teem) ==
    CASE address = 3 -> rtc_encode(teem.tm_hour)
      [] address = 2 -> rtc_encode(teem.tm_min)
      [] address = 1 -> rtc_encode(teem.tm_sec)
      [] address = 7 -> rtc_encode(teem.tm_year - 100)
      [] address = 6 -> rtc_encode(teem.tm_mon + 1)
      [] address = 5 -> rtc_encode(teem.tm_mday)
      [] OTHER -> XorInt(address, 85)

\* rtc_read at a moment when localtime(time(NULL)) is teem
rtc_read(address, teem) ==
    /\ call' = Call("rtc_read", <<address, teem>>, <<rtc_value(address, teem)>>,
                    <<>>)
    /\ pre' = Snapshot
    /\ UNCHANGED <<axpVars, simVars, otherVars>>

\* Host clocks, tm_year counting from 1900 and tm_mon from 0: the first and
\* last second of 2000-2099, dates inside, a leap second, the last day of
\* 1999, the first of 2100 and of 2160.  No sample is before 1991, where
\* (tm_year-100)/10 is negative and its shift undefined.
ClockSamples ==
    {Tm(0, 0, 0, 1, 0, 100), Tm(59, 59, 23, 31, 11, 199),
     Tm(7, 8, 9, 10, 8, 126), Tm(30, 45, 12, 19, 9, 125),
     Tm(10, 20, 10, 20, 10, 120), Tm(60, 59, 23, 30, 5, 115),
     Tm(1, 2, 3, 4, 5, 106), Tm(48, 37, 16, 29, 1, 124),
     Tm(59, 59, 23, 31, 11, 99), Tm(0, 0, 0, 1, 0, 200),
     Tm(0, 0, 0, 1, 0, 260)}

\* Register addresses: the six clock fields and others
RtcAddresses == (0..8) \cup {85, 170, 255}

InitRtc ==
    /\ adc_enable = 0
    /\ chargecurrent_setting = 0
    /\ chip_id = 0
    /\ regs = PowerOnRegs(0, 0, 0)
    /\ faults = 0
    /\ call = NoCall
    /\ SimIdle
    /\ pre = Snapshot

NextRtc == \E address \in RtcAddresses, teem \in ClockSamples : rtc_read(address, teem)

SpecRtc == InitRtc /\ [][NextRtc]_vars

-----------------------------------------------------------------------------
(* Simulated USB connection (stubs.c) *)

BUTTON_REL == 33554432            \* 0x02000000
BUTTON_ON == 1
BUTTON_OFF == 2

\* The events the user produces: two buttons, pressed and released
ButtonEvents ==
    {BUTTON_ON, BUTTON_OFF, BUTTON_ON + BUTTON_REL, BUTTON_OFF + BUTTON_REL}

\* The loop running on while the event fetched has no BUTTON_REL
usb_waits_for_release(event) == BitAnd(event, BUTTON_REL) = 0

\* line 113: the loop runs on while the event fetched has BUTTON_REL
usb_loops(event) == BitAnd(event, BUTTON_REL) # 0

\* The user presses or releases a button
post_button(event) ==
    /\ Len(usb_seen) + Len(button_queue) < MaxEvents
    /\ button_queue' = Append(button_queue, event)
    /\ UNCHANGED <<axpVars, simVars, build, ipodVars, usb_pc, usb_seen, call, pre>>

\* lines 110-112: simulate_usb is called and shows the USB screen
simulate_usb ==
    /\ usb_pc = "idle"
    /\ usb_pc' = "loop"
    /\ usb_seen' = <<>>
    /\ call' = Call("simulate_usb", <<>>, <<>>, <<>>)
    /\ pre' = Snapshot
    /\ UNCHANGED <<axpVars, simVars, build, ipodVars, button_queue>>

\* lines 113-114: button_get(true) blocks until an event is queued; the loop
\* then runs on, or the function returns false
button_get ==
    /\ usb_pc = "loop"
    /\ button_queue # <<>>
    /\ button_queue' = Tail(button_queue)
    /\ usb_seen' = Append(usb_seen, Head(button_queue))
    /\ IF usb_loops(Head(button_queue))
       THEN usb_pc' = "loop" /\ UNCHANGED <<call, pre>>
       ELSE /\ usb_pc' = "idle"
            /\ call' = Call("simulate_usb", <<>>, <<FALSE>>, <<>>)
            /\ pre' = Snapshot
    /\ UNCHANGED <<axpVars, simVars, build, ipodVars>>

InitUsb ==
    /\ adc_enable = 0
    /\ chargecurrent_setting = 0
    /\ chip_id = 0
    /\ regs = PowerOnRegs(0, 0, 0)
    /\ faults = 0
    /\ call = NoCall
    /\ SimIdle
    /\ pre = Snapshot

NextUsb ==
    \/ \E event \in ButtonEvents : post_button(event)
    \/ simulate_usb
    \/ button_get

\* The simulator's thread runs: a queued event is fetched
SpecUsb == InitUsb /\ [][NextUsb]_vars /\ WF_vars(button_get)

-----------------------------------------------------------------------------
(* Raw disk access of ipodpatcher (ipodio-posix.c) *)

\* Descriptors 0, 1 and 2 are the standard streams
FirstDescriptor == 3

\* The descriptors open() can hand out
Descriptors == FirstDescriptor..(FirstDescriptor + MaxDescriptors - 1)

\* The outcomes of open(): it can fail for any path, and fails when no
\* descriptor is free
OpenOutcomes(table) ==
    IF DOMAIN table = Descriptors THEN {FALSE} ELSE {TRUE, FALSE}

\* open(diskname, mode): the lowest free descriptor, or -1
posix_open(table, diskname, mode, ok) ==
    IF ok /\ DOMAIN table # Descriptors
    THEN LET fd == CHOOSE d \in Descriptors \ DOMAIN table :
                       \A e \in Descriptors \ DOMAIN table : d <= e
         IN [fd |-> fd, fds |-> (fd :> [path |-> diskname, mode |-> mode]) @@ table]
    ELSE [fd |-> -1, fds |-> table]

\* close(fd): an open descriptor is released, any other value is refused
posix_close(table, fd) == [d \in DOMAIN table \ {fd} |-> table[d]]

\* The result of a call: the handle, the sector size, the descriptor table,
\* the value returned and the system calls made
IpodResult(h, size, table, ret, sys) ==
    [dh |-> h, sector_size |-> size, fds |-> table, ret |-> ret, sys |-> sys]

\* lines 35-47
open_ro(h, size, table, diskname, ok) ==
    LET o == posix_open(table, diskname, "O_RDONLY", ok) IN
    IF o.fd < 0
    THEN IpodResult(o.fd, size, o.fds, -1, <<Bus("open", diskname, FALSE)>>)
    ELSE IpodResult(o.fd, 512, o.fds, 0, <<Bus("open", diskname, TRUE)>>)

\* ipod_reopen_rw without the close of line 52
reopen_rw_noclose(h, size, table, diskname, ok) ==
    LET o == posix_open(table, diskname, "O_RDWR", ok) IN
    IpodResult(o.fd, size, o.fds, IF o.fd < 0 THEN -1 ELSE 0,
               <<Bus("open", diskname, o.fd >= 0)>>)

\* lines 50-59
reopen_rw(h, size, table, diskname, ok) ==
    LET o == posix_open(posix_close(table, h), diskname, "O_RDWR", ok) IN
    IpodResult(o.fd, size, o.fds, IF o.fd < 0 THEN -1 ELSE 0,
               <<Bus("close", h, h \in DOMAIN table),
                 Bus("open", diskname, o.fd >= 0)>>)

\* A call's effect on the caller's variables and on the process
IpodCall(op, diskname, r) ==
    /\ dh' = r.dh
    /\ sector_size' = r.sector_size
    /\ fds' = r.fds
    /\ call' = Call(op, <<diskname, dh, fds>>, <<r.ret>>, r.sys)
    /\ pre' = Snapshot
    /\ UNCHANGED <<axpVars, simVars, build, usbVars>>

ipod_open(diskname) ==
    \E ok \in OpenOutcomes(fds) :
        IpodCall("ipod_open", diskname, open_ro(dh, sector_size, fds, diskname, ok))

\* The close of line 52 frees a descriptor before the open
ipod_reopen_rw(diskname) ==
    \E ok \in OpenOutcomes(posix_close(fds, dh)) :
        IpodCall("ipod_reopen_rw", diskname,
                 reopen_rw(dh, sector_size, fds, diskname, ok))

\* lines 61-65: the handle is passed by value, the caller keeps its number
ipod_close ==
    IpodCall("ipod_close", "",
             IpodResult(dh, sector_size, posix_close(fds, dh), 0,
                        <<Bus("close", dh, dh \in DOMAIN fds)>>))

DiskNames == {"/dev/sda", "/dev/sdb"}

InitIpod ==
    /\ adc_enable = 0
    /\ chargecurrent_setting = 0
    /\ chip_id = 0
    /\ regs = PowerOnRegs(0, 0, 0)
    /\ faults = 0
    /\ call = NoCall
    /\ SimIdle
    /\ pre = Snapshot

NextIpod ==
    \/ \E diskname \in DiskNames : ipod_open(diskname)
    \/ \E diskname \in DiskNames : ipod_reopen_rw(diskname)
    \/ ipod_close

SpecIpod == InitIpod /\ [][NextIpod]_vars

-----------------------------------------------------------------------------
(* Coulomb counters *)

\* A uint32_t, kept as its two 16-bit halves
U32(hi, lo) == [hi |-> hi, lo |-> lo]

\* The 8 counter registers, from the base register on
CcRegs == AXP_REG_COULOMBCOUNTERBASE..(AXP_REG_COULOMBCOUNTERBASE + 7)

\* i2c_reg_read of 8 bytes from the base register
cc_bytes(r) == [i \in 1..8 |-> r[AXP_REG_COULOMBCOUNTERBASE + i - 1]]

\* The same four bytes taken least significant first
cc_parse_le(b, at) ==
    U32(BitOr(Shl(b[at + 4], 8), b[at + 3]) % 65536,
        BitOr(Shl(b[at + 2], 8), b[at + 1]) % 65536)

\* line 423: (buf[0] << 24) | (buf[1] << 16) | (buf[2] << 8) | buf[3], for the
\* four bytes at offset at; bits 16-31 are (buf[0] << 8) | buf[1]
axp_cc_parse(b, at) ==
    U32(BitOr(Shl(b[at + 1], 8), b[at + 2]) % 65536,
        BitOr(Shl(b[at + 3], 8), b[at + 4]) % 65536)

\* An out-parameter: NULL, or the address of a variable holding val
NullPtr == [null |-> TRUE, val |-> U32(0, 0)]
Ptr(v) == [null |-> FALSE, val |-> v]

\* *p = v under if(p)
Store(p, v) == IF p.null THEN p ELSE Ptr(v)

\* lines 428-442: what the two out-parameters point at on return
cc_read(r, charge, discharge, ok) ==
    IF ~ok
    THEN <<Store(charge, U32(0, 0)), Store(discharge, U32(0, 0))>>
    ELSE <<Store(charge, axp_cc_parse(cc_bytes(r), 0)),
           Store(discharge, axp_cc_parse(cc_bytes(r), 4))>>

axp_cc_read(charge, discharge) ==
    \E ok \in ReadOutcomes :
        /\ call' = Call("axp_cc_read", <<charge, discharge>>,
                        cc_read(regs, charge, discharge, ok),
                        <<Bus("read", AXP_REG_COULOMBCOUNTERBASE, ok)>>)
        /\ pre' = Snapshot
        /\ UNCHANGED <<axpVars, simVars, otherVars>>

\* Accumulator contents, as four bytes from the lowest register up
CounterSamples ==
    {<<0, 0, 0, 0>>, <<0, 0, 0, 1>>, <<1, 2, 3, 4>>, <<128, 0, 1, 0>>,
     <<18, 52, 86, 120>>, <<255, 255, 255, 255>>}

\* What the caller passes: NULL, or a variable holding an earlier value
CcPointers == {NullPtr, Ptr(U32(57005, 48879))}

InitCc ==
    /\ adc_enable = 0
    /\ chargecurrent_setting = 0
    /\ chip_id = 0
    /\ \E c \in CounterSamples, d \in CounterSamples :
          regs = [x \in ConfigRegs \cup CcRegs |->
                    IF x \in CcRegs
                    THEN (c \o d)[x - AXP_REG_COULOMBCOUNTERBASE + 1]
                    ELSE 0]
    /\ faults = 0
    /\ call = NoCall
    /\ SimIdle
    /\ pre = Snapshot

NextCc ==
    \E charge \in CcPointers, discharge \in CcPointers :
        axp_cc_read(charge, discharge)

SpecCc == InitCc /\ [][NextCc]_vars

-----------------------------------------------------------------------------
(* Properties of the ADC enable mask *)

Has(mask, adc) == BitAnd(mask, Shl(1, adc)) # 0

\* C1: axp_adc_set_enabled is idempotent.  Of two calls in succession with
\* the same mask, the second issues no bus write and leaves the in-memory
\* mask unchanged, so the two calls issue at most one write together.
C1_SetEnabledIdempotent ==
    [][(/\ call.op = "axp_adc_set_enabled"
        /\ call'.op = "axp_adc_set_enabled"
        /\ call'.arg = call.arg)
       => (/\ call'.bus = <<>>
           /\ adc_enable' = adc_enable
           /\ Len(call.bus) + Len(call'.bus) <= 1)]_vars

\* C2: after a call of axp_adc_set_enabled(m) that is not a no-op the mask
\* holds every bit of m; charge and discharge current are set together when
\* m has either; discharge current and battery voltage are both set when m
\* has battery power.
C2_MaskHasForcedBits ==
    (call.op = "axp_adc_set_enabled" /\ call.bus # <<>>) =>
        LET m == call.arg[1] IN
        /\ BitAnd(adc_enable, m) = m
        /\ (Has(m, ADC_CHARGE_CURRENT) \/ Has(m, ADC_DISCHARGE_CURRENT))
             => (/\ Has(adc_enable, ADC_CHARGE_CURRENT)
                 /\ Has(adc_enable, ADC_DISCHARGE_CURRENT))
        /\ Has(m, ADC_BATTERY_POWER)
             => (/\ Has(adc_enable, ADC_DISCHARGE_CURRENT)
                 /\ Has(adc_enable, ADC_BATTERY_VOLTAGE))

-----------------------------------------------------------------------------
(* Properties of the ADC reads and of the battery status *)

\* C7: axp_battery_status returns Charging whenever the power status read
\* succeeds with bit 0x04 set; Discharging whenever the read fails or no bit
\* of 0xf0 is set and charging is clear; Full only when a source bit is set,
\* charging is clear and the raw discharge current reading is exactly 0, so
\* that a disabled channel or a failed ADC read gives Discharging.
C7_BatteryStatus ==
    call.op = "axp_battery_status" =>
        LET r == call.arg[1]
            d == call.arg[2]
            ret == call.ret[1]
            plugged == r >= 0 /\ BitAnd(r, 240) # 0
            charging == r >= 0 /\ BitAnd(r, 4) # 0
        IN  /\ call.bus[1] = Bus("read", AXP_REG_POWERSTATUS, r >= 0)
            /\ charging => ret = AXP_BATT_CHARGING
            /\ (r < 0 \/ (~plugged /\ ~charging)) => ret = AXP_BATT_DISCHARGING
            /\ ret = AXP_BATT_FULL <=> (plugged /\ ~charging /\ d = 0)
            /\ ret = AXP_BATT_FULL =>
                 /\ Has(adc_enable, ADC_DISCHARGE_CURRENT)
                 /\ Len(call.bus) = 2
                 /\ call.bus[2] =
                      Bus("read", axp_adc_info[ADC_DISCHARGE_CURRENT + 1].reg,
                          TRUE)
            /\ ret \in {AXP_BATT_CHARGING, AXP_BATT_DISCHARGING, AXP_BATT_FULL}

\* C7 happens: a Full report, and a Discharging report from a plugged,
\* not charging device whose discharge current channel is disabled
C7_Witness ==
    /\ call.op = "axp_battery_status"
    /\ call.ret[1] = AXP_BATT_FULL
    /\ call.arg[1] >= 0

C7_WitnessDisabled ==
    /\ call.op = "axp_battery_status"
    /\ call.arg[1] >= 0
    /\ BitAnd(call.arg[1], 240) # 0
    /\ BitAnd(call.arg[1], 4) = 0
    /\ ~Has(adc_enable, ADC_DISCHARGE_CURRENT)
    /\ call.ret[1] = AXP_BATT_DISCHARGING

\* C8: for a channel whose bit is clear in the enabled mask axp_adc_read_raw
\* and axp_adc_read return INT_MIN without a bus read; for a channel whose
\* bit is set and whose register read succeeds both return another value.
C8_DisabledReadsNoValue ==
    call.op \in {"axp_adc_read_raw", "axp_adc_read"} =>
        LET adc == call.arg[1] IN
        /\ ~Has(adc_enable, adc) => (call.ret[1] = INT_MIN /\ call.bus = <<>>)
        /\ Has(adc_enable, adc) =>
             /\ Len(call.bus) = 1
             /\ call.bus[1].kind = "read"
             /\ call.bus[1].ok => call.ret[1] # INT_MIN
             /\ ~call.bus[1].ok => call.ret[1] = INT_MIN

\* C8 happens: the internal temperature channel, which axp_init never finds
\* enabled here, gives a value once axp_adc_set_enabled has set its bit
C8_Witness ==
    /\ call.op = "axp_adc_read"
    /\ call.arg[1] = ADC_INTERNAL_TEMP
    /\ call.ret[1] # INT_MIN
    /\ pre.adc_enable = Shl(1, ADC_INTERNAL_TEMP)

-----------------------------------------------------------------------------
(* Properties of the supplies *)

AllOk(bus) == \A i \in 1..Len(bus) : bus[i].ok

\* A voltage min_mV + k * step_mV of the supply's range
OnStep(supply, voltage) ==
    LET info == axp_supply_info[supply + 1] IN
    /\ info.step_mV # 0
    /\ voltage >= info.min_mV
    /\ voltage <= info.max_mV
    /\ (voltage - info.min_mV) % info.step_mV = 0

\* A positive voltage outside the supply's range
OutOfRange(supply, voltage) ==
    LET info == axp_supply_info[supply + 1] IN
    voltage > 0 /\ (voltage < info.min_mV \/ voltage > info.max_mV)

\* C3: supply voltage set/get round-trips.  After axp_supply_set_voltage(s,
\* min_mV + k * step_mV) within the range, with every bus transaction
\* successful, axp_supply_get_voltage(s) returns the voltage that was set.
\* (LDO_IO0 has no enable bit that the set operation drives: the claim is
\* read of an LDO_IO0 that is in LDO mode.)
C3_SupplyRoundTrip ==
    [][(/\ call.op = "axp_supply_set_voltage"
        /\ OnStep(call.arg[1], call.arg[2])
        /\ AllOk(call.bus)
        /\ call.arg[1] = AXP_SUPPLY_LDO_IO0 => BitAnd(regs[144], 7) = 2
        /\ call'.op = "axp_supply_get_voltage"
        /\ call'.arg[1] = call.arg[1]
        /\ AllOk(call'.bus))
       => call'.ret[1] = call.arg[2]]_vars

\* C4: axp_supply_set_voltage(s, v) with v > 0 outside [min_mV, max_mV]
\* issues no bus transaction and changes no register, so that
\* axp_supply_get_voltage(s) returns what it returned before the call.
C4_OutOfRangeIgnored ==
    (call.op = "axp_supply_set_voltage"
     /\ OutOfRange(call.arg[1], call.arg[2])) =>
        /\ call.bus = <<>>
        /\ regs = pre.regs
        /\ \A oke \in ReadOutcomes, okv \in ReadOutcomes :
              supply_get_voltage(regs, call.arg[1], oke, okv)
              = supply_get_voltage(pre.regs, call.arg[1], oke, okv)

\* C4 happens: a voltage above the range is requested of LDO3 while it is
\* enabled at another voltage
C4_Witness ==
    /\ call.op = "axp_supply_set_voltage"
    /\ call.arg = <<AXP_SUPPLY_LDO3,
                    axp_supply_info[AXP_SUPPLY_LDO3 + 1].max_mV + 1>>
    /\ BitAnd(pre.regs[18], 8) # 0
    /\ BitAnd(pre.regs[40], 15) # 0

\* A supply that has a voltage register and an enable register
HasEnable(supply) ==
    /\ axp_supply_info[supply + 1].volt_reg # 0
    /\ axp_supply_info[supply + 1].en_reg # 0

\* C16: for a supply other than LDO_IO0 that has an enable register,
\* axp_supply_get_voltage returns AXP_SUPPLY_DISABLED whenever bit en_bit of
\* the enable register is 0, and a millivolt value only when it is 1; for
\* LDO_IO0 it returns AXP_SUPPLY_DISABLED unless the 3-bit mode field is 2; a
\* failed read of the enable register returns AXP_SUPPLY_DISABLED.
C16_EnabledStateReported ==
    (call.op = "axp_supply_get_voltage" /\ HasEnable(call.arg[1])) =>
        LET info == axp_supply_info[call.arg[1] + 1] IN
        /\ ~call.bus[1].ok => call.ret[1] = AXP_SUPPLY_DISABLED
        /\ call.arg[1] # AXP_SUPPLY_LDO_IO0 =>
              (((regs[info.en_reg] \div (2 ^ info.en_bit)) % 2 = 0)
                  => call.ret[1] = AXP_SUPPLY_DISABLED)
        /\ call.arg[1] = AXP_SUPPLY_LDO_IO0 =>
              ((regs[info.en_reg] % 8 # 2) => call.ret[1] = AXP_SUPPLY_DISABLED)

\* A positive voltage inside the supply's range
InRange(supply, voltage) ==
    LET info == axp_supply_info[supply + 1] IN
    /\ info.volt_reg # 0 /\ info.volt_reg_mask # 0 /\ info.step_mV # 0
    /\ voltage > 0 /\ voltage >= info.min_mV /\ voltage <= info.max_mV

\* The voltage read back for a supply from registers r, no read failing
ReadBack(r, supply) == supply_get_voltage(r, supply, TRUE, TRUE).ret

\* C17: axp_supply_set_voltage(s, v) with v in range changes, in the voltage
\* register of s, only bits inside volt_reg_mask of s; setting LDO2 never
\* changes the voltage read back for LDO3, nor setting LDO3 that of LDO2.
C17_OnlyMaskedBitsChange ==
    (call.op = "axp_supply_set_voltage" /\ InRange(call.arg[1], call.arg[2])) =>
        LET info == axp_supply_info[call.arg[1] + 1] IN
        /\ BitAnd(regs[info.volt_reg], Not8(info.volt_reg_mask))
           = BitAnd(pre.regs[info.volt_reg], Not8(info.volt_reg_mask))
        /\ call.arg[1] = AXP_SUPPLY_LDO2 =>
              ReadBack(regs, AXP_SUPPLY_LDO3) = ReadBack(pre.regs, AXP_SUPPLY_LDO3)
        /\ call.arg[1] = AXP_SUPPLY_LDO3 =>
              ReadBack(regs, AXP_SUPPLY_LDO2) = ReadBack(pre.regs, AXP_SUPPLY_LDO2)

-----------------------------------------------------------------------------
(* Properties of the charge current limit *)

\* The index of the greatest table entry <= c, 0 when there is none
GreatestEntryIndex(c) ==
    IF \A i \in 1..chargecurrent_tblsz : chargecurrent_tbl[i] > c THEN 0
    ELSE CHOOSE i \in 0..(chargecurrent_tblsz - 1) :
            /\ chargecurrent_tbl[i + 1] <= c
            /\ \A j \in (i + 1)..(chargecurrent_tblsz - 1) :
                  chargecurrent_tbl[j + 1] > c

\* Every limit from below zero to above the last entry, and 10000
ChargeDomain == (-50..1400) \cup {10000}

\* The selection over ChargeDomain: in [0,15], the greatest entry <= the
\* limit, clamped at both ends, monotonic, exact on table values
ChargeSelectionRule ==
    /\ \A c \in ChargeDomain :
          /\ charge_select(c) \in 0..15
          /\ charge_select(c) = GreatestEntryIndex(c)
          /\ c < chargecurrent_tbl[1] => charge_select(c) = 0
          /\ c > chargecurrent_tbl[chargecurrent_tblsz] => charge_select(c) = 15
          /\ (c + 1) \in ChargeDomain => charge_select(c) <= charge_select(c + 1)
    /\ \A i \in 1..chargecurrent_tblsz :
          charge_select(chargecurrent_tbl[i]) = i - 1
    /\ charge_select(0) = 0
    /\ charge_select(700) = 7
    /\ charge_select(1320) <= charge_select(10000)

\* C5: axp_set_charge_current(maxcurrent) selects, for every maxcurrent, the
\* index in [0,15] of the greatest table entry <= maxcurrent (0 below every
\* entry, 15 above every entry), monotonically, a table value selecting its
\* own index; axp_get_charge_current then returns that table entry.
C5_ChargeSelection ==
    /\ ChargeSelectionRule
    /\ call.op = "axp_set_charge_current" =>
          /\ chargecurrent_setting = GreatestEntryIndex(call.arg[1])
          /\ get_charge_current(chargecurrent_setting)
             = chargecurrent_tbl[GreatestEntryIndex(call.arg[1]) + 1]
    /\ call.op = "axp_get_charge_current" =>
          call.ret[1] = IF chargecurrent_setting < 0 THEN chargecurrent_tbl[1]
                        ELSE chargecurrent_tbl[chargecurrent_setting + 1]

\* C5 happens: a limit between two entries selected the lower one
C5_Witness ==
    /\ call.op = "axp_set_charge_current"
    /\ call.arg[1] = 701
    /\ chargecurrent_setting = 7
    /\ call.bus # <<>>

\* C6: a call of axp_set_charge_current that follows a call selecting the
\* same table index issues no bus transaction and leaves the cached index
\* unchanged.
C6_RepeatedSetIsSilent ==
    [][(/\ call.op = "axp_set_charge_current"
        /\ call'.op = "axp_set_charge_current"
        /\ GreatestEntryIndex(call'.arg[1]) = GreatestEntryIndex(call.arg[1]))
       => (/\ call'.bus = <<>>
           /\ chargecurrent_setting' = chargecurrent_setting
           /\ regs' = regs)]_vars

\* C6 happens: a second call with another limit of the same index, after a
\* first call that wrote, did nothing
C6_Witness ==
    /\ call.op = "axp_set_charge_current"
    /\ call.arg[1] = 701
    /\ call.bus = <<>>
    /\ pre.chargecurrent_setting = 7
    /\ chargecurrent_setting = 7


-----------------------------------------------------------------------------
(* Properties of the simulated sector store *)

\* The last call moved exactly one sector
SingleRead == call.op = "ata_read_sectors" /\ call.arg[2] = 1

\* The most recent write covering sector n was ata_write_sectors(n, 1, B)
LastWriteSingle(n) == n \in DOMAIN lastwrite /\ lastwrite[n].single

Portion(b, i) == SubSeq(b, i * SECTOR_SIZE + 1, (i + 1) * SECTOR_SIZE)

\* C18: ata_write_sectors(start, count, buf) stores bytes [i*512, (i+1)*512)
\* of buf as sector start+i for each i < count, and ata_read_sectors places
\* sector start+i at buffer offset i*512, leaving the portion of a sector
\* whose file is missing unchanged.
C18_PerSectorOffsets ==
    /\ call.op = "ata_write_sectors" =>
          \A i \in 0..(call.arg[2] - 1) :
              call.bus[i + 1].ok =>
                  files[sector_name(call.arg[1] + i)] = Portion(call.arg[3], i)
    /\ call.op = "ata_read_sectors" =>
          \A i \in 0..(call.arg[2] - 1) :
              Portion(buf, i) =
                  IF call.bus[i + 1].ok
                  THEN files[sector_name(call.arg[1] + i)]
                  ELSE Portion(call.arg[3], i)

-----------------------------------------------------------------------------
(* Properties of the coulomb counters *)

\* The big-endian value of four bytes, as 16-bit halves
BigEndian(b0, b1, b2, b3) == U32(b0 * 256 + b1, b2 * 256 + b3)

CcReadOk == call.op = "axp_cc_read" /\ call.bus[1].ok

CcReadFailed == call.op = "axp_cc_read" /\ ~call.bus[1].ok

\* C10: axp_cc_read reports charge as the big-endian value of counter bytes
\* 0..3 and discharge as that of bytes 4..7; when the bus read fails both
\* reported accumulators are exactly 0.
C10_CcReadBigEndian ==
    /\ CcReadOk =>
          /\ ~call.arg[1].null =>
                call.ret[1].val
                = BigEndian(regs[176], regs[177], regs[178], regs[179])
          /\ ~call.arg[2].null =>
                call.ret[2].val
                = BigEndian(regs[180], regs[181], regs[182], regs[183])
    /\ CcReadFailed =>
          /\ ~call.arg[1].null => call.ret[1].val = U32(0, 0)
          /\ ~call.arg[2].null => call.ret[2].val = U32(0, 0)

\* A failed read of counters that hold nonzero bytes, into two variables that
\* held an earlier nonzero value
C10_Witness ==
    /\ CcReadFailed
    /\ ~call.arg[1].null /\ call.arg[1].val # U32(0, 0)
    /\ ~call.arg[2].null /\ call.arg[2].val # U32(0, 0)
    /\ regs[176] = 18 /\ regs[183] = 255
    /\ call.ret = <<Ptr(U32(0, 0)), Ptr(U32(0, 0))>>

-----------------------------------------------------------------------------
(* Properties of the ADC conversions *)

\* Numerator, denominator and offset of each channel's conversion
ConvFormula ==
    (ADC_ACIN_VOLTAGE :> <<17, 10, 0>>) @@ (ADC_ACIN_CURRENT :> <<5, 8, 0>>) @@
    (ADC_VBUS_VOLTAGE :> <<17, 10, 0>>) @@ (ADC_VBUS_CURRENT :> <<3, 8, 0>>) @@
    (ADC_INTERNAL_TEMP :> <<1, 1, 1447>>) @@ (ADC_TS_INPUT :> <<4, 5, 0>>) @@
    (ADC_BATTERY_VOLTAGE :> <<11, 10, 0>>) @@ (ADC_CHARGE_CURRENT :> <<1, 2, 0>>) @@
    (ADC_DISCHARGE_CURRENT :> <<1, 2, 0>>) @@ (ADC_APS_VOLTAGE :> <<7, 5, 0>>) @@
    (ADC_BATTERY_POWER :> <<11, 20, 0>>)

\* v is raw * num / den - off with the quotient truncated
IsConversion(adc, raw, v) ==
    LET f == ConvFormula[adc] IN
    /\ (v + f[3]) * f[2] <= raw * f[1]
    /\ raw * f[1] < (v + f[3] + 1) * f[2]

\* The raw code of the bytes b: 12 bits, 13 bits for the two battery
\* currents, 24 bits for the battery power
RawCode(adc, b) ==
    IF adc = ADC_BATTERY_POWER THEN b[1] * 65536 + b[2] * 256 + b[3]
    ELSE IF adc \in {ADC_CHARGE_CURRENT, ADC_DISCHARGE_CURRENT}
    THEN b[1] * 32 + (b[2] % 32)
    ELSE b[1] * 16 + (b[2] % 16)

\* C11: for an enabled channel whose bus read succeeds axp_adc_read is the
\* channel's conversion formula applied to the raw code of the bytes read, and
\* axp_adc_conv_raw is that formula for the 11 channels and INT_MIN for every
\* other channel index.
C11_ReadIsConversion ==
    /\ (/\ call.op = "axp_adc_read"
        /\ Has(adc_enable, call.arg[1])
        /\ call.bus[1].ok) =>
           IsConversion(call.arg[1], RawCode(call.arg[1], call.arg[2]), call.ret[1])
    /\ call.op = "axp_adc_conv_raw" =>
           IF call.arg[1] \in AdcChannels
           THEN IsConversion(call.arg[1], call.arg[2], call.ret[1])
           ELSE call.ret[1] = INT_MIN

\* A battery power read of the largest code, whose quotient is inexact
C11_Witness ==
    /\ call.op = "axp_adc_read"
    /\ call.arg = <<ADC_BATTERY_POWER, <<255, 255, 255>> >>
    /\ call.bus[1].ok
    /\ call.ret = <<9227468>>

-----------------------------------------------------------------------------
(* Properties of the simulated real-time clock *)

\* The clock field an address names
RtcField(address, teem) ==
    CASE address = 1 -> teem.tm_sec
      [] address = 2 -> teem.tm_min
      [] address = 3 -> teem.tm_hour
      [] address = 5 -> teem.tm_mday
      [] address = 6 -> teem.tm_mon + 1
      [] address = 7 -> teem.tm_year - 100

\* The number a packed BCD byte stands for
BcdDecode(v) == (v \div 16) * 10 + (v % 16)

\* address XOR 0x55, bit by bit over 8 bits
Xor55(address) ==
    LET bit(x, k) == (x \div (2 ^ k)) % 2 IN
    LET sum[k \in 0..8] ==
            IF k = 8 THEN 0
            ELSE (IF bit(address, k) # bit(85, k) THEN 2 ^ k ELSE 0) + sum[k + 1]
    IN sum[0]

C12_RtcReadBcdThisCentury ==
    (call.op = "rtc_read" /\ call.arg[2].tm_year \in 100..199) =>
        IF call.arg[1] \in {1, 2, 3, 5, 6, 7}
        THEN /\ call.ret[1] \in 0..255
             /\ call.ret[1] % 16 <= 9
             /\ BcdDecode(call.ret[1]) = RtcField(call.arg[1], call.arg[2])
        ELSE call.ret[1] = Xor55(call.arg[1])

-----------------------------------------------------------------------------
(* Properties of the raw disk access *)

\* The number of descriptors the process holds open
OpenCount(table) == Cardinality(DOMAIN table)

\* What the claim says of the values returned, of the sector size and of a
\* reopen's order of system calls
IpodReturns ==
    /\ call.op = "ipod_open" =>
          IF call.bus[1].ok
          THEN /\ call.ret = <<0>>
               /\ sector_size = 512
               /\ dh \in DOMAIN fds
               /\ fds[dh] = [path |-> call.arg[1], mode |-> "O_RDONLY"]
          ELSE call.ret = <<-1>> /\ dh < 0
    /\ call.op = "ipod_reopen_rw" =>
          /\ Len(call.bus) = 2
          /\ call.bus[1].kind = "close" /\ call.bus[1].reg = call.arg[2]
          /\ call.bus[2].kind = "open" /\ call.bus[2].reg = call.arg[1]
          /\ IF call.bus[2].ok
             THEN /\ call.ret = <<0>>
                  /\ dh \in DOMAIN fds
                  /\ fds[dh] = [path |-> call.arg[1], mode |-> "O_RDWR"]
             ELSE /\ call.ret = <<-1>>
                  /\ dh < 0
                  /\ call.arg[2] \notin DOMAIN fds
    /\ call.op = "ipod_close" => call.ret = <<0>>

\* C13 (as the claim states it): the values returned are as above, and after
\* any sequence of open and reopen calls at most one descriptor is open.
C13_HandleLifecycleAnySequence ==
    /\ IpodReturns
    /\ OpenCount(fds) <= 1

\* C13 (amended): the values returned are as above; a call of ipod_open made
\* while no descriptor is open, and a call of ipod_reopen_rw made while no
\* descriptor other than the handle's is open, leave at most one descriptor
\* open.  ipod_open does not close the descriptor a handle already holds.
C13_HandleLifecycle ==
    /\ IpodReturns
    /\ (call.op = "ipod_open" /\ OpenCount(call.arg[3]) = 0) => OpenCount(fds) <= 1
    /\ (call.op = "ipod_reopen_rw" /\ DOMAIN call.arg[3] \subseteq {call.arg[2]}) =>
          OpenCount(fds) <= 1

\* A reopen of an open handle that succeeds, after which the handle's new
\* descriptor is the only one
C13_Witness ==
    /\ call.op = "ipod_reopen_rw"
    /\ call.bus[1].ok /\ call.bus[2].ok
    /\ call.arg[3][call.arg[2]].mode = "O_RDONLY"
    /\ OpenCount(fds) = 1
    /\ fds[dh].mode = "O_RDWR"

-----------------------------------------------------------------------------
(* Properties of the initialization *)

\* Bit number n of a register value
RegBit(value, n) == (value \div (2 ^ n)) % 2

\* C14: after axp_init_enabled_adcs with a successful read of the two ADC
\* enable registers, the mask bit of every channel that has an enable bit is
\* set if and only if bit number en_bit of the channel's enable register is
\* 1; if the read fails the mask is zero.
C14_InitReconstructsMask ==
    call.op = "axp_init_enabled_adcs" =>
        IF call.bus[2].ok
        THEN \A i \in AdcChannels \ {ADC_BATTERY_POWER} :
                Has(adc_enable, i)
                <=> RegBit(regs[axp_adc_info[i + 1].en_reg],
                           axp_adc_info[i + 1].en_bit) = 1
        ELSE adc_enable = 0

\* C15: after axp_init, bus writes succeeding, the discharge current bit is
\* set in the mask and bit 6 of ADC enable register 1 is 1 in the hardware.
C15_InitForcesDischarge ==
    call.op = "axp_init" =>
        /\ Has(adc_enable, ADC_DISCHARGE_CURRENT)
        /\ RegBit(regs[AXP_REG_ADCENABLE1], 6) = 1

-----------------------------------------------------------------------------
(* Properties of the input status *)

\* Flag f is part of the status value v; f is one bit
Flag(v, f) == (v \div f) % 2 = 1

\* C19: axp_input_status reports AC exactly when power status bit 0x80 is
\* set, and USB only if bit 0x20 is set and bit 0x02 is clear; on a failed
\* power status read it returns the baseline (battery present where the build
\* has no battery switch) with neither AC nor USB; power_input_status maps AC
\* to the main charger and USB to the USB charger and never reports the
\* battery unless the build has a battery switch.
C19_InputStatus ==
    /\ call.op = "axp_input_status" =>
          IF call.arg[1] < 0
          THEN call.ret[1] = IF build.HAVE_BATTERY_SWITCH THEN 0
                             ELSE AXP_INPUT_BATTERY
          ELSE /\ Flag(call.ret[1], AXP_INPUT_AC) <=> (call.arg[1] \div 128) % 2 = 1
               /\ Flag(call.ret[1], AXP_INPUT_USB) =>
                     /\ (call.arg[1] \div 32) % 2 = 1
                     /\ (call.arg[1] \div 2) % 2 = 0
               /\ ~build.HAVE_BATTERY_SWITCH => Flag(call.ret[1], AXP_INPUT_BATTERY)
    /\ call.op = "power_input_status" =>
          /\ call.ret[1] \in
                {m + u + b : m \in {0, POWER_INPUT_MAIN_CHARGER},
                             u \in {0, POWER_INPUT_USB_CHARGER},
                             b \in {0, POWER_INPUT_BATTERY}}
          /\ Flag(call.ret[1], 4) <=> (call.arg[1] >= 0 /\ (call.arg[1] \div 128) % 2 = 1)
          /\ Flag(call.ret[1], 8) =>
                /\ call.arg[1] >= 0
                /\ (call.arg[1] \div 32) % 2 = 1
                /\ (call.arg[1] \div 2) % 2 = 0
          /\ Flag(call.ret[1], POWER_INPUT_BATTERY) => build.HAVE_BATTERY_SWITCH

\* AC and VBUS both present and shorted together: only the main charger is
\* reported
C19_Witness ==
    /\ call.op = "power_input_status"
    /\ call.arg[1] = 162
    /\ call.ret = <<POWER_INPUT_MAIN_CHARGER>>

-----------------------------------------------------------------------------
(* Properties of the simulated USB connection *)

\* An event with BUTTON_REL set
IsRelease(event) == (event \div BUTTON_REL) % 2 = 1

\* simulate_usb has returned, and has not been called again
UsbReturned == usb_pc = "idle" /\ call.op = "simulate_usb" /\ call.ret # <<>>

\* simulate_usb has been called and has not returned
UsbBlocked == usb_pc = "loop"

\* C20 (as the claim states it): simulate_usb does not return before a
\* release event has been fetched, returns once that release has been
\* fetched, and returns false.
C20_ReturnsOnRelease ==
    /\ UsbReturned =>
          /\ usb_seen # <<>>
          /\ IsRelease(usb_seen[Len(usb_seen)])
          /\ call.ret = <<FALSE>>
    /\ UsbBlocked => \A i \in 1..Len(usb_seen) : ~IsRelease(usb_seen[i])

\* What holds in every state: the events fetched before the last one are
\* release events, the one simulate_usb returned on is not, and the value
\* returned is false
UsbSkipsReleases ==
    /\ UsbReturned =>
          /\ usb_seen # <<>>
          /\ ~IsRelease(usb_seen[Len(usb_seen)])
          /\ \A i \in 1..(Len(usb_seen) - 1) : IsRelease(usb_seen[i])
          /\ call.ret = <<FALSE>>
    /\ UsbBlocked => \A i \in 1..Len(usb_seen) : IsRelease(usb_seen[i])

\* C20 (amended): simulate_usb blocks, discarding the events that have
\* BUTTON_REL set, until an event without BUTTON_REL has been fetched, and
\* only then returns; whenever it returns the result is false.  It does not
\* return before the first event without BUTTON_REL, and once such an event is
\* queued it fetches it and returns.
C20_ReturnsOnPress ==
    /\ []UsbSkipsReleases
    /\ ((UsbBlocked /\ \E i \in 1..Len(button_queue) : ~IsRelease(button_queue[i]))
            ~> UsbReturned)

\* simulate_usb has returned on a press after discarding two releases
C20_Witness ==
    /\ UsbReturned
    /\ Len(usb_seen) = 3
    /\ IsRelease(usb_seen[1]) /\ IsRelease(usb_seen[2])
    /\ usb_seen[3] = BUTTON_OFF

-----------------------------------------------------------------------------
(* Properties of the raw ADC codes *)

\* A raw read of an enabled channel that the bus answered
RawReadDone ==
    /\ call.op = "axp_adc_read_raw"
    /\ Has(adc_enable, call.arg[1])
    /\ call.bus[1].ok

\* The conversion of the code v of channel adc stays within a 32-bit int
ConvFits(adc, v) ==
    /\ INT_MIN <= conv_dividend(adc, v) /\ conv_dividend(adc, v) <= INT_MAX
    /\ INT_MIN <= axp_adc_conv_raw(adc, v) /\ axp_adc_conv_raw(adc, v) <= INT_MAX

\* C21 (as the claim states it): a raw read of an enabled channel returns a
\* code in 0..4095, the battery-power channel a code in 0..2^24 - 1, and the
\* conversion of that code does not overflow a 32-bit int.
C21_RawCodesTwelveBit ==
    RawReadDone =>
        /\ 0 <= call.ret[1]
        /\ call.ret[1] <= (IF call.arg[1] = ADC_BATTERY_POWER THEN 16777215 ELSE 4095)
        /\ ConvFits(call.arg[1], call.ret[1])

\* C21 (amended): a raw read of an enabled channel returns a code in 0..4095,
\* the charge-current and discharge-current channels a 13-bit code in 0..8191,
\* the battery-power channel a code in 0..2^24 - 1, and the conversion of that
\* code does not overflow a 32-bit int.
C21_RawCodesBounded ==
    RawReadDone =>
        /\ 0 <= call.ret[1]
        /\ call.ret[1] <=
              (IF call.arg[1] = ADC_BATTERY_POWER THEN 16777215
               ELSE IF call.arg[1] \in {ADC_CHARGE_CURRENT, ADC_DISCHARGE_CURRENT}
               THEN 8191 ELSE 4095)
        /\ ConvFits(call.arg[1], call.ret[1])

\* A raw read of the discharge current with every bit of both bytes set
C21_Witness ==
    /\ RawReadDone
    /\ call.arg = <<ADC_DISCHARGE_CURRENT, <<255, 255>> >>
    /\ call.ret = <<8191>>

-----------------------------------------------------------------------------
(* Coherence of the ADC enable mask with the enable registers *)

\* The enable bit of channel i in the enable registers r
HardwareEnabled(r, i) ==
    RegBit(r[axp_adc_info[i + 1].en_reg], axp_adc_info[i + 1].en_bit) = 1

\* C22: after a call of axp_adc_set_enabled whose bus write succeeded, the
\* mask bit of every channel that has an enable bit is set if and only if
\* that enable bit is 1 in the register image the call wrote.
C22_MaskMatchesHardware ==
    (/\ call.op = "axp_adc_set_enabled"
     /\ call.bus # <<>>
     /\ call.bus[1].ok) =>
        \A i \in AdcChannels \ {ADC_BATTERY_POWER} :
            Has(adc_enable, i) <=> HardwareEnabled(regs, i)

-----------------------------------------------------------------------------
(* Coherence of the cached charge current index *)

\* C23: whenever the cached index is not -1 it is in 0..15 and equals the low
\* four bits of charge control register 1, whatever bus reads and modifies
\* of axp_init and axp_set_charge_current have failed.
C23_CacheMatchesRegister ==
    chargecurrent_setting # -1 =>
        /\ chargecurrent_setting \in 0..15
        /\ chargecurrent_setting = regs[AXP_REG_CHARGECONTROL1] % 16

-----------------------------------------------------------------------------
(* Frame of axp_init on the ADC enable registers *)

\* C24: axp_init clears no bit of the two ADC enable registers, whatever they
\* held and whether the read of them succeeded or failed; the only change it
\* makes to them is setting the discharge current enable bit, bit 6 of ADC
\* enable register 1.
C24_InitOnlyAddsEnables ==
    call.op = "axp_init" =>
        /\ \A n \in 0..7 :
              /\ RegBit(pre.regs[AXP_REG_ADCENABLE1], n) = 1
                    => RegBit(regs[AXP_REG_ADCENABLE1], n) = 1
              /\ RegBit(pre.regs[AXP_REG_ADCENABLE2], n) = 1
                    => RegBit(regs[AXP_REG_ADCENABLE2], n) = 1
        /\ regs[AXP_REG_ADCENABLE1]
              \in {pre.regs[AXP_REG_ADCENABLE1],
                   BitOr(pre.regs[AXP_REG_ADCENABLE1], 64)}
        /\ regs[AXP_REG_ADCENABLE2] = pre.regs[AXP_REG_ADCENABLE2]

====
